---------------------------- MODULE Spec2Model ----------------------------
(***************************************************************************)
(* A model of render_tiles (src/src/web/util.py), the text-to-grid         *)
(* compiler of robot-is-you's web application, and of the services around  *)
(* it (src/WEBAPP.py, src/src/web/load.py, src/src/web/dependencies.py).   *)
(*                                                                         *)
(* The specifications share the variables below:                           *)
(*   SpecText     handle_text_mode as a pure function of its four inputs   *)
(*   SpecBlank    input normalisation and the blank-input check            *)
(*   SpecFlags    flag extraction, validation and clean-up                 *)
(*   SpecParse    the messages built from a parse failure                  *)
(*   Spec         the syntax-tree walk, dimensions, temporal padding,      *)
(*                blank filter and limit checks of one request             *)
(*   SpecVariants the same walk over requests drawn with variants          *)
(*   SpecRender   the messages built from a semantic failure               *)
(*   SpecCache    GeneratedTiles and the dispose loop                      *)
(*   SpecWeb      handle_render_tiles and handle_send_result over the      *)
(*                cache, with the loop and shutdown                        *)
(*   SpecLoopLive the cache and the loop under fair scheduling             *)
(*   SpecLoad     load and its load flags                                  *)
(*   SpecDeps     get_database and get_variant_handlers                    *)
(*                                                                         *)
(* Strings.  An object name is a sequence of chunks: zero or more of the   *)
(* five-character prefixes "text_" and "tile_" followed by a base name, so *)
(* that obj.startswith("text_") is Head(obj) = "text_" and obj[5:] is      *)
(* Tail(obj).  The raw request text is a sequence of one-character         *)
(* strings.                                                                *)
(***************************************************************************)
EXTENDS Integers, Sequences, FiniteSets, TLC

VARIABLES
    pc,               \* position inside the modelled function
    raised,           \* the exception that ended the call, or NoError
    is_rule,          \* render_tiles parameter is_rule
    draw,             \* which input sets the request is drawn from
    line_text_mode,   \* util.py:266  "None" | "True" | "False"
    line_variants,    \* util.py:267
    blob_text_mode,   \* util.py:298
    stack_variants,   \* util.py:300
    obj,              \* util.py:324  object name handed to handle_text_mode
    text_result,      \* value returned by handle_text_mode
    objects,          \* render_tiles parameter objects (raw text)
    tiles,            \* util.py:117  normalised text
    words,            \* util.py:135-192  tiles as its whitespace-separated words
    flags,            \* util.py:152-188  background, palette, raw_output, raw_name,
                      \*                  default_to_letters, delay, frame_count
    flag_text,        \* history: the words the flags were extracted from
    row,              \* util.py:216  the row handed to the parser
    lark_error,       \* util.py:223-261  the exception lark.parse raised, `e`
    cached_generated_tiles,   \* WEBAPP.py:79  insertion-ordered dict, hash -> instance
    heap,             \* the GeneratedTiles instances constructed so far
    now,              \* datetime.now()
    dispose_log,      \* history: the try_dispose calls of the last round of the loop
    requests,         \* WEBAPP.py:222-244  the handle_render_tiles calls so far
    sent,             \* WEBAPP.py:248-264  the last answer of handle_send_result
    load_flags,       \* load.py:31-53  the rows of the load_flags table
    force_flags,      \* load.py:592  force_flags of the load call under way
    loader_no,        \* load.py:598  position in `loaders` (0: no call under way)
    load_calls,       \* number of load calls so far
    load_log,         \* history: what each loader call did, over all load calls
    _db,              \* dependencies.py:11  (0 for None)
    _variant_handlers,   \* dependencies.py:31  (0 for None)
    databases,        \* the Database objects constructed so far
    handlers,         \* the VariantHandlers objects constructed so far
    callers,          \* dependencies.py:12-39  the calls of the two getters
    expanded_tiles,   \* util.py:213  insertion-ordered dict, key -> tile stack
    previous_tile,    \* util.py:214
    temp_tile,        \* util.py:364  pending tile buffer
    x, y,             \* util.py:216-217
    dx, dy, t,        \* util.py:316, 363
    last_hack,        \* util.py:365
    err,              \* util.py:411  OperationError caught from expand_into
    width, height, duration,   \* util.py:422-424
    size,             \* size of the part of the request walked so far
    last_change,      \* history: kind of the last Change of the current process
    authored,         \* history: the grid as the walk left it, before padding
    stack_no,         \* history: Stacks of the current row begun before this one
    line_no,          \* history: Lines of the current row begun before this one
    unit_variants     \* history: the own variants of the Unit walked last

paramVars == <<is_rule, draw>>
flagVars == <<words, flags, flag_text>>
parseVars == <<row, lark_error>>
cacheVars == <<cached_generated_tiles, heap, now, dispose_log>>
webVars == <<requests, sent>>
loadVars == <<load_flags, force_flags, loader_no, load_calls, load_log>>
depVars == <<_db, _variant_handlers, databases, handlers, callers>>
textVars == <<obj, text_result>>
inputVars == <<objects, tiles>>
modeVars == <<line_text_mode, line_variants, blob_text_mode, stack_variants>>
cursorVars == <<x, y, dx, dy, t, last_hack>>
gridVars == <<expanded_tiles, previous_tile, temp_tile>>
dimVars == <<width, height, duration>>

histVars == <<last_change, authored, stack_no, line_no, unit_variants>>

vars == <<pc, raised, paramVars, flagVars, parseVars, cacheVars, webVars, loadVars, depVars, modeVars, textVars, inputVars, gridVars,
          cursorVars, err, dimVars, size, histVars>>

\* ------------------------------------------------------------------ bounds
MaxPrefix == 2        \* prefixes in front of a base name drawn as input
MaxLen == 3           \* characters of raw request text drawn as input
MaxWords == 3         \* words of request text drawn as input to the flag extractor
MaxRowLen == 11       \* characters of a row that fails to parse
MaxInstances == 3     \* GeneratedTiles instances constructed
MaxRequests == 2      \* handle_render_tiles calls
MaxRendered == 2      \* renders cached while the dispose loop is watched
MaxLoads == 2         \* load calls
MaxCallers == 4       \* calls of get_database and get_variant_handlers
MaxTime == 4          \* ticks of the clock
MaxSize == 3          \* size of one request: its blank rows, Units, Operations
                      \* and the frames its Transforms hold a tile beyond the first

\* --------------------------------------------------------------- exceptions
\* An exception is its class, its message and the values the message carries.
Exc(type, msg, about) == [type |-> type, msg |-> msg, about |-> about]
WebappUserError(msg, about) == Exc("WebappUserError", msg, about)
NoError == Exc("NoError", "", <<>>)
RuntimeError == Exc("RuntimeError", "this should never happen", <<>>)
TypeError == Exc("TypeError", "exceptions must derive from BaseException", <<>>)
IndexError == Exc("IndexError", "list index out of range", <<>>)
ValueError == Exc("ValueError", "max() arg is an empty sequence", <<>>)
BlankError == WebappUserError("Input cannot be blank.", <<>>)

\* ------------------------------------------------------------- sequences
RECURSIVE SeqsUpTo(_, _)
SeqsUpTo(S, n) ==
    IF n = 0 THEN {<<>>}
    ELSE LET shorter == SeqsUpTo(S, n - 1)
         IN  shorter \cup {<<c>> \o s : c \in S, s \in {q \in shorter : Len(q) = n - 1}}

\* ============================================================ text mode
Modes == {"None", "True", "False"}
Prefixes == {"text_", "tile_"}
BaseNames == {"baba", "-", "."}
ObjectNames == {p \o <<b>> : p \in SeqsUpTo(Prefixes, MaxPrefix), b \in BaseNames}

StartsWith(name, prefix) == name # <<>> /\ Head(name) = prefix

\* -1 if mode is False else mode or 0
ModeDelta(mode) == IF mode = "False" THEN -1 ELSE IF mode = "True" THEN 1 ELSE 0

TextDelta(blob_mode, line_mode, rule) ==
    ModeDelta(blob_mode) + ModeDelta(line_mode) + (IF rule THEN 1 ELSE 0)

\* number of iterations of `for _ in range(n)`
RangeLen(n) == IF n > 0 THEN n ELSE 0

Returned(value) == [raised |-> NoError, value |-> value]
Raised(exc) == [raised |-> exc, value |-> <<>>]

\* The loop of util.py:345-349 with the prefix test on "text_" instead of "tile_".
RECURSIVE PositiveLoopStripsText(_, _)
PositiveLoopStripsText(name, k) ==
    IF k = 0 THEN name
    ELSE PositiveLoopStripsText(IF StartsWith(name, "text_") THEN Tail(name)
                                ELSE <<"text_">> \o name, k - 1)

RECURSIVE PositiveLoop(_, _)
PositiveLoop(name, k) ==
    IF k = 0 THEN name
    ELSE PositiveLoop(IF StartsWith(name, "tile_") THEN Tail(name)
                      ELSE <<"text_">> \o name, k - 1)

RECURSIVE NegativeLoop(_, _)
NegativeLoop(name, k) ==
    IF k = 0 THEN Returned(name)
    ELSE IF StartsWith(name, "text_") THEN NegativeLoop(Tail(name), k - 1)
    ELSE Raised(RuntimeError)

HandleTextMode(name, blob_mode, line_mode, rule) ==
    LET text_delta == TextDelta(blob_mode, line_mode, rule)
    IN  IF text_delta = 0 THEN Returned(name)
        ELSE IF text_delta > 0 THEN Returned(PositiveLoop(name, RangeLen(text_delta)))
        ELSE NegativeLoop(name, RangeLen(text_delta))

NoResult == [raised |-> Exc("NotCalled", "", <<>>), value |-> <<>>]

\* The parts of the state a specification does not use stay as they are here.
TextIdle == obj = <<>> /\ text_result = NoResult
InputIdle == objects = <<>> /\ tiles = <<>>

\* util.py:152, 162, 168-169, 174, 177, 183: the flags before any directive
\* is read; no background is the empty pair
DefaultFlags ==
    [background |-> <<>>, palette |-> "default", raw_output |-> FALSE, raw_name |-> "",
     default_to_letters |-> FALSE, delay |-> 200, frame_count |-> 3]
FlagsIdle == words = <<>> /\ flags = DefaultFlags /\ flag_text = <<>>

\* what lark.parse raised: its class, e.column and the bucket
\* e.match_examples puts it in ("None" when no example matches)
LarkError(type, column, mistake_kind) ==
    [type |-> type, column |-> column, mistake_kind |-> mistake_kind]
NoLarkError == LarkError("None", 0, "None")
ParseIdle == row = <<>> /\ lark_error = NoLarkError
CacheIdle ==
    /\ cached_generated_tiles = <<>> /\ heap = <<>> /\ now = 0 /\ dispose_log = <<>>
\* no render request yet, nothing sent
NoAnswer == [status |-> 0, body |-> "None", max_age |-> 0]
WebIdle == requests = <<>> /\ sent = NoAnswer
LoadIdle ==
    /\ load_flags = {} /\ force_flags = <<>> /\ loader_no = 0
    /\ load_calls = 0 /\ load_log = <<>>
DepsIdle ==
    /\ _db = 0 /\ _variant_handlers = 0
    /\ databases = <<>> /\ handlers = <<>> /\ callers = <<>>
ServicesIdle == WebIdle /\ LoadIdle /\ DepsIdle
ModesIdle ==
    /\ line_text_mode = "None" /\ line_variants = <<>>
    /\ blob_text_mode = "None" /\ stack_variants = <<>>
WalkIdle ==
    /\ expanded_tiles = <<>> /\ previous_tile = <<>> /\ temp_tile = <<>>
    /\ x = 0 /\ y = 0 /\ dx = 0 /\ dy = 0 /\ t = 0 /\ last_hack = FALSE
    /\ err = NoError
    /\ width = 0 /\ height = 0 /\ duration = 0
    /\ size = 0
    /\ last_change = "none" /\ authored = <<>>
    /\ stack_no = 0 /\ line_no = 0
    /\ unit_variants = <<>>

InitText ==
    /\ pc = "text_mode"
    /\ raised = NoError
    /\ is_rule \in BOOLEAN
    /\ draw = "names"
    /\ line_text_mode \in Modes
    /\ blob_text_mode \in Modes
    /\ line_variants = <<>>
    /\ stack_variants = <<>>
    /\ obj \in ObjectNames
    /\ text_result = NoResult
    /\ InputIdle
    /\ FlagsIdle
    /\ ParseIdle
    /\ CacheIdle
    /\ ServicesIdle
    /\ WalkIdle

CallHandleTextMode ==
    /\ pc = "text_mode"
    /\ text_result' = HandleTextMode(obj, blob_text_mode, line_text_mode, is_rule)
    /\ raised' = text_result'.raised
    /\ pc' = IF raised' = NoError THEN "text_done" ELSE "error"
    /\ UNCHANGED <<paramVars, flagVars, parseVars, cacheVars, webVars, loadVars, depVars, modeVars, obj, inputVars, gridVars, cursorVars, err,
                   dimVars, size, histVars>>

NextText == CallHandleTextMode

SpecText == InitText /\ [][NextText]_vars

\* ---------------------------------------------------------------- C1, C2
RECURSIVE LeadingCount(_, _)
LeadingCount(name, prefix) ==
    IF StartsWith(name, prefix) THEN 1 + LeadingCount(Tail(name), prefix) ELSE 0

DropChunks(name, k) == SubSeq(name, k + 1, Len(name))

RECURSIVE Repeat(_, _)
Repeat(chunk, k) == IF k <= 0 THEN <<>> ELSE <<chunk>> \o Repeat(chunk, k - 1)

TextModeCalled == pc \in {"text_done", "error"} /\ text_result # NoResult

CurrentDelta == TextDelta(blob_text_mode, line_text_mode, is_rule)

\* C1: with a negative delta handle_text_mode strips a leading "text_" |delta|
\* times, and raises when a strip is due on a name without the prefix.
C1_NegativeDeltaStripsOrRaises ==
    (TextModeCalled /\ CurrentDelta < 0) =>
        LET k == -CurrentDelta
        IN  IF LeadingCount(obj, "text_") >= k
            THEN text_result.raised = NoError /\ text_result.value = DropChunks(obj, k)
            ELSE text_result.raised = RuntimeError

\* The positive branch as the claim words it: strip "text_" if present,
\* otherwise prepend "text_", delta times.
RECURSIVE ClaimedPositive(_, _)
ClaimedPositive(name, k) ==
    IF k = 0 THEN name
    ELSE ClaimedPositive(IF StartsWith(name, "text_") THEN Tail(name)
                         ELSE <<"text_">> \o name, k - 1)

\* C2 as stated: delta = 0 returns the name unchanged; delta > 0 strips a
\* leading "text_" if present and otherwise prepends "text_", delta times.
C2_AsStated ==
    (TextModeCalled /\ CurrentDelta >= 0) =>
        /\ text_result.raised = NoError
        /\ text_result.value = ClaimedPositive(obj, CurrentDelta)

\* C2 amended: delta = 0 returns the name unchanged; delta > 0 removes the
\* leading "tile_" prefixes one per iteration and, once none is left,
\* prepends "text_" once per remaining iteration.
C2_PositiveDeltaStripsTilePrefix ==
    (TextModeCalled /\ CurrentDelta >= 0) =>
        LET d == CurrentDelta
            p == LeadingCount(obj, "tile_")
        IN  /\ text_result.raised = NoError
            /\ text_result.value =
                  IF d <= p THEN DropChunks(obj, d)
                  ELSE Repeat("text_", d - p) \o DropChunks(obj, p)

C2_Witness ==
    /\ pc = "text_done"
    /\ CurrentDelta = 2
    /\ obj = <<"tile_", "baba">>
    /\ text_result.value = <<"text_", "baba">>

\* ===================================================== input normalisation
\* One-character strings of the raw text.  Newline, backslash, backtick and
\* the variation selector U+FE0F are written by name.
Space == " "
Newline == "NL"
Backslash == "BACKSLASH"
VS16 == "U+FE0F"
Backtick == "BACKTICK"
Pipe == "|"
Alphabet == {Space, Newline, Pipe, Backtick, Backslash, "B", "b", VS16}
Whitespace == {Space, Newline}

\* str.lower() on the alphabet
LowerChar(c) == IF c = "B" THEN "b" ELSE c
Lower(s) == [i \in 1..Len(s) |-> LowerChar(s[i])]

RECURSIVE LStrip(_)
LStrip(s) == IF s # <<>> /\ Head(s) \in Whitespace THEN LStrip(Tail(s)) ELSE s

RECURSIVE RStrip(_)
RStrip(s) ==
    IF s # <<>> /\ s[Len(s)] \in Whitespace THEN RStrip(SubSeq(s, 1, Len(s) - 1)) ELSE s

\* str.strip()
Strip(s) == RStrip(LStrip(s))

\* str.translate(builtin_emoji): the circled m, up! and mask emoji become
\* their :text: form and U+FE0F is deleted.
TranslateChar(c) ==
    IF c = VS16 THEN <<>>
    ELSE IF c \in {"U+24DC", "U+24C2"} THEN <<":", "m", ":">>
    ELSE IF c = "U+1F199" THEN <<":", "u", "p", ":">>
    ELSE IF c = "U+1F637" THEN <<":", "m", "a", "s", "k", ":">>
    ELSE <<c>>

RECURSIVE Translate(_)
Translate(s) == IF s = <<>> THEN <<>> ELSE TranslateChar(Head(s)) \o Translate(Tail(s))

IsPrefixOf(pat, s) == Len(pat) <= Len(s) /\ SubSeq(s, 1, Len(pat)) = pat

\* str.replace(pat, ""): non-overlapping occurrences, left to right
RECURSIVE Remove(_, _)
Remove(s, pat) ==
    IF s = <<>> THEN <<>>
    ELSE IF IsPrefixOf(pat, s) THEN Remove(SubSeq(s, Len(pat) + 1, Len(s)), pat)
    ELSE <<Head(s)>> \o Remove(Tail(s), pat)

\* util.py:117-135.  The custom-emoji pattern of line 128 needs a "<", which
\* no text over Alphabet holds, so re.sub leaves these texts as they are.
Normalize(text) ==
    LET stripped   == Strip(Lower(text))
        translated == Translate(stripped)
        unfenced   == Remove(translated, <<Backtick, Backtick, Backtick, Newline>>)
        unslashed  == Remove(unfenced, <<Backslash>>)
        unticked   == Remove(unslashed, <<Backtick>>)
    IN  Remove(unticked, <<Pipe>>)

InitBlank ==
    /\ pc = "normalize"
    /\ raised = NoError
    /\ objects \in SeqsUpTo(Alphabet, MaxLen)
    /\ tiles = <<>>
    /\ is_rule = FALSE
    /\ draw = "names"
    /\ ModesIdle
    /\ TextIdle
    /\ FlagsIdle
    /\ ParseIdle
    /\ CacheIdle
    /\ ServicesIdle
    /\ WalkIdle

\* util.py:117-135
NormalizeInput ==
    /\ pc = "normalize"
    /\ tiles' = Normalize(objects)
    /\ pc' = "blank_check"
    /\ UNCHANGED <<raised, objects, paramVars, flagVars, parseVars, cacheVars, webVars, loadVars, depVars, modeVars, textVars, gridVars,
                   cursorVars, err, dimVars, size, histVars>>

\* util.py:138-139: `if not tiles: raise`
BlankCheck ==
    /\ pc = "blank_check"
    /\ IF tiles = <<>>
       THEN raised' = BlankError /\ pc' = "error"
       ELSE raised' = raised /\ pc' = "flags"
    /\ UNCHANGED <<inputVars, paramVars, flagVars, parseVars, cacheVars, webVars, loadVars, depVars, modeVars, textVars, gridVars, cursorVars,
                   err, dimVars, size, histVars>>

NextBlank == NormalizeInput \/ BlankCheck

SpecBlank == InitBlank /\ [][NextBlank]_vars

\* -------------------------------------------------------------------- C4
AllWhitespace(s) == \A i \in 1..Len(s) : s[i] \in Whitespace

\* C4: a text that is empty or only whitespace after normalisation ends the
\* request with the blank-input error, before flag extraction.
C4_BlankAfterNormalizationIsRejected ==
    (pc \in {"flags", "error"} /\ AllWhitespace(tiles)) =>
        (pc = "error" /\ raised = BlankError)

\* ======================================================== flag extractor
\* The normalised text as its words, each separated from the next by one
\* whitespace character.  A word is a flag directive (its flag, the digits
\* or the name it carries) or other text.
Word(flag, nums, name) == [flag |-> flag, nums |-> nums, name |-> name]

\* util.py:144-151: the six patterns, in the order of flag_patterns
FlagPatterns == <<"-b", "-p", "-r", "-l", "-d", "-f">>

\* os.listdir("data/palettes"), without the ".png"
KnownPalettes == {"default", "abstract"}

FlagWords ==
    {Word("-b", <<>>, "")}
    \cup {Word("-b", v, "") : v \in {<<7, 5>>, <<8, 0>>, <<0, 6>>}}
    \cup {Word("-p", <<>>, n) : n \in {"abstract", "nope"}}
    \cup {Word("-r", <<>>, ""), Word("-l", <<>>, "")}
    \cup {Word("-d", <<v>>, "") : v \in {0, 1, 1000, 1001}}
    \cup {Word("-f", <<v>>, "") : v \in {0, 1, 3, 4}}
TileWords == {Word("", <<>>, "baba")}
Texts == SeqsUpTo(FlagWords \cup TileWords, MaxWords) \ {<<>>}

\* re.finditer(pattern, tiles): the positions of the matches, left to right.
\* Every pattern is (?:^|\s) ... (?:$|\s): a match consumes the whitespace
\* after its word, so the word right after a match has no start of text and
\* no whitespace left in front of it and is not matched in the same scan.
RECURSIVE FindIter(_, _, _, _)
FindIter(pattern, text, i, consumed) ==
    IF i > Len(text) THEN <<>>
    ELSE IF text[i].flag = pattern /\ ~consumed
    THEN <<i>> \o FindIter(pattern, text, i + 1, TRUE)
    ELSE FindIter(pattern, text, i + 1, FALSE)

Matches(pattern, text) == FindIter(pattern, text, 1, FALSE)

\* the words at the positions `at`, in order
At(text, at) == [k \in 1..Len(at) |-> text[at[k]]]

\* the state of the extraction: the flags so far and the error raised, if any
Extraction(fl, e) == [flags |-> fl, raised |-> e]

\* util.py:153-161: one iteration
ReadBackground(fl, w) ==
    IF w.nums # <<>>
    THEN IF ~(0 <= w.nums[1] /\ w.nums[1] <= 7 /\ 0 <= w.nums[2] /\ w.nums[2] <= 5)
         THEN Extraction(fl, WebappUserError("The provided background color is invalid.", <<>>))
         ELSE Extraction([fl EXCEPT !.background = w.nums], NoError)
    ELSE Extraction([fl EXCEPT !.background = <<0, 4>>], NoError)

\* util.py:163-166: one iteration
ReadPalette(fl, w) ==
    IF w.name \notin KnownPalettes
    THEN Extraction([fl EXCEPT !.palette = w.name],
                    WebappUserError("Could not find a palette with name {palette}.", <<w.name>>))
    ELSE Extraction([fl EXCEPT !.palette = w.name], NoError)

\* util.py:170-173: one iteration
ReadRaw(fl, w) ==
    Extraction([fl EXCEPT !.raw_output = TRUE,
                          !.raw_name = IF w.name # "" THEN w.name ELSE @], NoError)

\* util.py:175-176: one iteration
ReadLetter(fl, w) == Extraction([fl EXCEPT !.default_to_letters = TRUE], NoError)

\* util.py:178-181: one iteration
ReadDelay(fl, w) ==
    IF w.nums[1] < 1 \/ w.nums[1] > 1000
    THEN Extraction([fl EXCEPT !.delay = w.nums[1]],
                    WebappUserError("Delay must be between 1 and 1000 milliseconds.", <<>>))
    ELSE Extraction([fl EXCEPT !.delay = w.nums[1]], NoError)

\* util.py:184-187: one iteration
ReadFrames(fl, w) ==
    IF w.nums[1] < 1 \/ w.nums[1] > 3
    THEN Extraction([fl EXCEPT !.frame_count = w.nums[1]],
                    WebappUserError("The frame count must be 1, 2 or 3.", <<>>))
    ELSE Extraction([fl EXCEPT !.frame_count = w.nums[1]], NoError)

Read(pattern, fl, w) ==
    CASE pattern = "-b" -> ReadBackground(fl, w)
      [] pattern = "-p" -> ReadPalette(fl, w)
      [] pattern = "-r" -> ReadRaw(fl, w)
      [] pattern = "-l" -> ReadLetter(fl, w)
      [] pattern = "-d" -> ReadDelay(fl, w)
      [] pattern = "-f" -> ReadFrames(fl, w)

\* one `for match in re.finditer(...)` loop over the matched words `ws`;
\* a raise ends the function
RECURSIVE ReadMatches(_, _, _)
ReadMatches(pattern, ex, ws) ==
    IF ex.raised.type # "NoError" \/ ws = <<>> THEN ex
    ELSE ReadMatches(pattern, Read(pattern, ex.flags, Head(ws)), Tail(ws))

\* util.py:152-188: the six loops, in order
RECURSIVE ExtractFrom(_, _, _)
ExtractFrom(text, k, ex) ==
    IF k > Len(FlagPatterns) \/ ex.raised.type # "NoError" THEN ex
    ELSE ExtractFrom(text, k + 1,
                     ReadMatches(FlagPatterns[k], ex, At(text, Matches(FlagPatterns[k], text))))

Extract(text) == ExtractFrom(text, 1, Extraction(DefaultFlags, NoError))

\* re.sub(pattern, " ", tiles): the matched words go
Sub(pattern, text) ==
    LET at == Matches(pattern, text)
        Kept(i) == \A k \in 1..Len(at) : at[k] # i
        RECURSIVE KeepFrom(_)
        KeepFrom(i) == IF i > Len(text) THEN <<>>
                       ELSE IF Kept(i) THEN <<text[i]>> \o KeepFrom(i + 1)
                       ELSE KeepFrom(i + 1)
    IN  KeepFrom(1)

\* util.py:191-192: one re.sub per pattern, each on the text the last one left
RECURSIVE CleanUpFrom(_, _)
CleanUpFrom(text, k) ==
    IF k > Len(FlagPatterns) THEN text
    ELSE CleanUpFrom(Sub(FlagPatterns[k], text), k + 1)

CleanUp(text) == CleanUpFrom(text, 1)

InitFlags ==
    /\ pc = "flags"
    /\ raised = NoError
    /\ is_rule = FALSE
    /\ draw = "names"
    /\ words \in Texts
    /\ flag_text = words
    /\ flags = DefaultFlags
    /\ ModesIdle
    /\ TextIdle
    /\ InputIdle
    /\ ParseIdle
    /\ CacheIdle
    /\ ServicesIdle
    /\ WalkIdle

\* util.py:144-192: the flags are read and validated, then the directives are
\* taken out of the text; pc = "split" is util.py:211, the text about to be
\* split into rows and parsed
ExtractFlags ==
    /\ pc = "flags"
    /\ LET ex == Extract(words)
       IN  /\ flags' = ex.flags
           /\ raised' = ex.raised
           /\ IF ex.raised.type = "NoError"
              THEN pc' = "split" /\ words' = CleanUp(words)
              ELSE pc' = "error" /\ words' = words
    /\ UNCHANGED <<paramVars, flag_text, parseVars, cacheVars, webVars, loadVars, depVars, modeVars, textVars, inputVars, gridVars,
                   cursorVars, err, dimVars, size, histVars>>

NextFlags == ExtractFlags

SpecFlags == InitFlags /\ [][NextFlags]_vars

\* ------------------------------------------------------------------- C15
\* a directive whose value is outside the range of its flag
OutOfRange(w) ==
    \/ w.flag = "-b" /\ w.nums # <<>> /\ ~(w.nums[1] \in 0..7 /\ w.nums[2] \in 0..5)
    \/ w.flag = "-p" /\ w.name \notin KnownPalettes
    \/ w.flag = "-d" /\ w.nums[1] \notin 1..1000
    \/ w.flag = "-f" /\ w.nums[1] \notin 1..3

FlagsInRange(fl) ==
    /\ fl.background = <<>> \/ (fl.background[1] \in 0..7 /\ fl.background[2] \in 0..5)
    /\ fl.palette \in KnownPalettes
    /\ fl.delay \in 1..1000
    /\ fl.frame_count \in 1..3

Absent(flag) == \A i \in 1..Len(flag_text) : flag_text[i].flag # flag

\* C15: flag validation precedes parsing.  A request whose text holds an
\* out-of-range background coordinate, an unknown palette name, a delay
\* outside [1, 1000] or a frame count outside [1, 3] ends with a
\* WebappUserError and its text is never parsed; whenever parsing starts the
\* flags are within their ranges, with absent flags at their defaults.
C15_FlagValidationPrecedesParsing ==
    /\ pc = "split" =>
          /\ FlagsInRange(flags)
          /\ Absent("-b") => flags.background = <<>>
          /\ Absent("-p") => flags.palette = "default"
          /\ Absent("-d") => flags.delay = 200
          /\ Absent("-f") => flags.frame_count = 3
    /\ (pc # "flags" /\ \E i \in 1..Len(flag_text) : OutOfRange(flag_text[i])) =>
          /\ pc = "error"
          /\ raised.type = "WebappUserError"

\* ======================================================= parse failures
\* A row is held as the sequence of its character positions: the snippet is
\* cut by position, whatever the characters are.
Rows == {[i \in 1..n |-> i] : n \in 1..MaxRowLen}
RowIndices == {0, 1}
LarkErrorTypes == {"UnexpectedCharacters", "UnexpectedToken", "UnexpectedEOF"}
MistakeKinds == {"unclosed", "missing", "variant", "None"}

\* a value a message was formatted with
Field(name, value) == [name |-> name, value |-> value]

\* s[i] of a slice bound, for a sequence of length n: a negative bound counts
\* from the end, and bounds are clamped to 0..n
SliceBound(i, n) ==
    IF i < 0 THEN (IF i + n < 0 THEN 0 ELSE i + n)
    ELSE IF i > n THEN n ELSE i

\* s[a:b]
PySlice(s, a, b) ==
    LET lo == SliceBound(a, Len(s))
        hi == SliceBound(b, Len(s))
    IN  IF lo >= hi THEN <<>> ELSE SubSeq(s, lo + 1, hi)

\* util.py:224, 248: row[e.column - 5 : e.column + 5]
Around(r, column) == PySlice(r, column - 5, column + 5)

InitParse ==
    /\ pc = "parse"
    /\ raised = NoError
    /\ is_rule = FALSE
    /\ draw = "names"
    /\ row \in Rows
    /\ \E type \in LarkErrorTypes, column \in 1..Len(row), kind \in MistakeKinds :
          /\ type # "UnexpectedToken" => kind = "None"
          /\ lark_error = LarkError(type, column, kind)
    /\ CacheIdle
    /\ ServicesIdle
    /\ ModesIdle
    /\ TextIdle
    /\ InputIdle
    /\ FlagsIdle
    /\ expanded_tiles = <<>> /\ previous_tile = <<>> /\ temp_tile = <<>>
    /\ x = 0 /\ y \in RowIndices /\ dx = 0 /\ dy = 0 /\ t = 0 /\ last_hack = FALSE
    /\ err = NoError
    /\ width = 0 /\ height = 0 /\ duration = 0
    /\ size = 0
    /\ last_change = "none" /\ authored = <<>>
    /\ stack_no = 0 /\ line_no = 0
    /\ unit_variants = <<>>

\* util.py:223-224
UnexpectedCharacters ==
    /\ pc = "parse"
    /\ lark_error.type = "UnexpectedCharacters"
    /\ raised' = WebappUserError("Invalid character {e.char} in row {y}, around {snippet}",
                                 <<Field("char", <<row[lark_error.column]>>),
                                   Field("y", <<y>>),
                                   Field("around", Around(row, lark_error.column))>>)
    /\ pc' = "error"
    /\ UNCHANGED <<paramVars, flagVars, parseVars, cacheVars, webVars, loadVars, depVars, modeVars, textVars, inputVars,
                   gridVars, cursorVars, err, dimVars, size, histVars>>

\* util.py:248-260: the message of the bucket
TokenMessage(kind, index, around) ==
    IF kind = "unclosed"
    THEN WebappUserError("Unclosed brackets or quotes! Expected them to close around {around}.",
                         <<Field("around", around)>>)
    ELSE IF kind = "missing"
    THEN WebappUserError("Missing a tile in row {y}! Error occurred around {around}.",
                         <<Field("y", <<index>>), Field("around", around)>>)
    ELSE IF kind = "variant"
    THEN WebappUserError("Empty variant in row {y}, around {around}.",
                         <<Field("y", <<index>>), Field("around", around)>>)
    ELSE WebappUserError("Invalid syntax in row {y}, around {around}.",
                         <<Field("y", <<index>>), Field("around", around)>>)

\* util.py:226-260
UnexpectedToken ==
    /\ pc = "parse"
    /\ lark_error.type = "UnexpectedToken"
    /\ raised' = TokenMessage(lark_error.mistake_kind, y, Around(row, lark_error.column))
    /\ pc' = "error"
    /\ UNCHANGED <<paramVars, flagVars, parseVars, cacheVars, webVars, loadVars, depVars, modeVars, textVars, inputVars,
                   gridVars, cursorVars, err, dimVars, size, histVars>>

\* util.py:261-262
UnexpectedEOF ==
    /\ pc = "parse"
    /\ lark_error.type = "UnexpectedEOF"
    /\ raised' = WebappUserError("Unexpected end of input in row {y}.", <<Field("y", <<y>>)>>)
    /\ pc' = "error"
    /\ UNCHANGED <<paramVars, flagVars, parseVars, cacheVars, webVars, loadVars, depVars, modeVars, textVars, inputVars,
                   gridVars, cursorVars, err, dimVars, size, histVars>>

NextParse == UnexpectedCharacters \/ UnexpectedToken \/ UnexpectedEOF

SpecParse == InitParse /\ [][NextParse]_vars

\* -------------------------------------------------------------- C16, C20
\* the message was formatted with `value` as its field `name`
Carries(e, name, value) ==
    \E i \in 1..Len(e.about) : e.about[i].name = name /\ e.about[i].value = value
Carried(e, name) ==
    e.about[CHOOSE i \in 1..Len(e.about) : e.about[i].name = name].value

TokenBuckets ==
    {"Unclosed brackets or quotes! Expected them to close around {around}.",
     "Missing a tile in row {y}! Error occurred around {around}.",
     "Empty variant in row {y}, around {around}.",
     "Invalid syntax in row {y}, around {around}."}

\* C16: an unexpected-token failure on row y is reported as exactly one of
\* the buckets unclosed, missing, empty variant and invalid syntax, and the
\* message of each bucket carries both the row number y and the snippet of
\* the row around the failure column.
C16_TokenFailureCarriesRowAndSnippet ==
    (pc = "error" /\ lark_error.type = "UnexpectedToken") =>
        /\ raised.type = "WebappUserError"
        /\ raised.msg \in TokenBuckets
        /\ Carries(raised, "y", <<y>>)
        /\ Carries(raised, "around", Around(row, lark_error.column))

\* the part of the row from index max(0, c - 5) up to index c + 5
Window(r, c) ==
    SubSeq(r, (IF c - 5 < 0 THEN 0 ELSE c - 5) + 1, IF c + 5 > Len(r) THEN Len(r) ELSE c + 5)

\* C20: the snippet of a parse failure at column c is the part of the row
\* from index max(0, c - 5) up to index c + 5, for every c including c < 5,
\* and so is not empty when the row is not empty and c lies within it.
C20_SnippetIsWindow ==
    (pc = "error" /\ lark_error.type \in {"UnexpectedCharacters", "UnexpectedToken"}) =>
        /\ Carried(raised, "around") = Window(row, lark_error.column)
        /\ Carried(raised, "around") # <<>>

\* ================================================================ tiles
\* RawTile (src/tile.py is not part of the sources at hand): name, variants
\* and the ephemeral flag; is_empty and is_previous compare the name with
\* the designated blank-tile name and the previous-tile sentinel.
EmptyName == <<"-">>
PreviousName == <<".">>
RawTile(name, variants, ephemeral) ==
    [name |-> name, variants |-> variants, ephemeral |-> ephemeral]
IsEmpty(tile) == tile.name = EmptyName
IsPrevious(tile) == tile.name = PreviousName

\* ------------------------------------------------ insertion-ordered dict
\* A dict is the sequence of its entries in insertion order.
Entry(key, stack) == [key |-> key, stack |-> stack]
Keys(d) == {d[i].key : i \in 1..Len(d)}
Has(d, key) == key \in Keys(d)
IndexOf(d, key) == CHOOSE i \in 1..Len(d) : d[i].key = key
Get(d, key) == d[IndexOf(d, key)].stack

\* d[key] = stack
Put(d, key, stack) ==
    IF Has(d, key) THEN [d EXCEPT ![IndexOf(d, key)].stack = stack]
    ELSE Append(d, Entry(key, stack))

\* d.setdefault(key, []).extend(more)
SetDefaultExtend(d, key, more) ==
    IF Has(d, key) THEN [d EXCEPT ![IndexOf(d, key)].stack = @ \o more]
    ELSE Append(d, Entry(key, more))

\* d.setdefault(key, []).append(tile)
SetDefaultAppend(d, key, tile) == SetDefaultExtend(d, key, <<tile>>)

\* ============================================================== the walk
\* What the parser hands to the walk.  A Row holds at least one Line, a Line
\* at least one Stack, a Stack at least one Blob and a Blob at least one
\* Process; the tree is drawn node by node as the walk reaches it.
WalkNames == IF draw = "variants" THEN {<<"baba">>} ELSE {<<b>> : b \in BaseNames}
LineModes == IF draw = "variants" THEN {"None"} ELSE {"None", "False"}
BlobModes == {"None"}
\* variants.children of a Unit, of a blob-stack entry and of a block Line
UnitVariantLists == IF draw = "variants" THEN {<<>>, <<"a">>} ELSE {<<>>}
StackVariantLists == IF draw = "variants" THEN {<<>>, <<"b">>} ELSE {<<>>}
LineVariantLists == IF draw = "variants" THEN {<<>>, <<"a">>} ELSE {<<>>}
UnitNodes == [object : WalkNames, variants : UnitVariantLists]
RunLengths == 1..MaxSize
OperationNames == {"op"}

\* append_extra_variants with the two extend calls in the other order
AppendLineVariantsFirst(final_variants, stack_vs, line_vs) ==
    (final_variants \o line_vs) \o stack_vs

\* util.py:332-335
AppendExtraVariants(final_variants, stack_vs, line_vs) ==
    (final_variants \o stack_vs) \o line_vs

\* ---------------------------------------------------- operation macros
\* OperationMacros.expand_into (src/cogs/operations.py is not part of the
\* sources at hand), after spec section 6: it may insert placements into
\* the grid, returns a (dx, dy, dt) triple, and fails with an OperationError
\* carrying (operation, position, tile).
OperationErrorTypes == {"OperationNotFound", "MovementOutOfFrame", "OperationError"}
OperationDeltas == {<<1, 0, 1>>, <<0, 1, 0>>}

ExpandIntoResults(grid, pending, pos, oper) ==
    {[raised |-> Exc(e, "", <<oper, pos, pending[1]>>),
      grid |-> grid, delta |-> <<0, 0, 0>>] : e \in OperationErrorTypes}
    \cup
    \* a copy of the pending tile, as an intermediate frame or as the result,
    \* at the position the tile moves from or at the one it moves to
    {[raised |-> NoError,
      grid |-> SetDefaultAppend(grid,
                                IF at_target
                                THEN <<pos[1] + d[1], pos[2] + d[2], pos[3] + d[3]>>
                                ELSE pos,
                                [pending[1] EXCEPT !.ephemeral = eph]),
      delta |-> d] : d \in OperationDeltas, at_target \in BOOLEAN, eph \in BOOLEAN}

\* util.py:82-95
HandleOperationErrors(e) ==
    LET operation == e.about[1]
        tile == e.about[3]
    IN  IF e.type = "OperationNotFound"
        THEN WebappUserError("The operation {operation} for {tile.name} could not be found.",
                             <<operation, tile.name>>)
        ELSE IF e.type = "MovementOutOfFrame"
        THEN WebappUserError("Tried to move out of bounds with the {operation} operation for {tile.name}.",
                             <<operation, tile.name>>)
        ELSE WebappUserError("The operation {operation} failed for {tile.name}.",
                             <<operation, tile.name>>)

\* Calling an `async def` function without awaiting it yields a coroutine
\* object, not the function's result.
Coroutine(result) == Exc("coroutine", "never awaited", <<result>>)
Await(coroutine) == coroutine.about[1]

\* `raise value`: anything that is not an exception raises TypeError instead.
PyRaise(value) == IF value.type = "coroutine" THEN TypeError ELSE value

\* util.py:412  raise handle_operation_errors(err) from err
RaiseOperationError(e) == PyRaise(Coroutine(HandleOperationErrors(e)))

Init ==
    /\ pc = "rows"
    /\ raised = NoError
    /\ is_rule \in BOOLEAN
    /\ draw = "names"
    /\ ModesIdle
    /\ TextIdle
    /\ InputIdle
    /\ FlagsIdle
    /\ ParseIdle
    /\ CacheIdle
    /\ ServicesIdle
    /\ WalkIdle

\* util.py:316-365: the head of one iteration of `for process in blob.children`,
\* under the line and blob context chosen in the same step.
BeginProcess(unit) ==
    /\ size < MaxSize
    /\ size' = size + 1
    /\ t' = 0 /\ dx' = 0 /\ dy' = 0
    /\ last_hack' = FALSE
    /\ LET r == HandleTextMode(unit.object, blob_text_mode', line_text_mode', is_rule)
           final_variants == AppendExtraVariants(unit.variants, stack_variants', line_variants')
       IN  IF r.raised = NoError
           THEN /\ temp_tile' = <<RawTile(r.value, final_variants, FALSE)>>
                /\ pc' = "changes"
                /\ raised' = raised
           ELSE /\ temp_tile' = temp_tile
                /\ pc' = "error"
                /\ raised' = r.raised
    /\ last_change' = "none"
    /\ unit_variants' = unit.variants
    /\ UNCHANGED <<paramVars, flagVars, parseVars, cacheVars, webVars, loadVars, depVars, textVars, inputVars, expanded_tiles, previous_tile,
                   err, dimVars, authored>>

\* util.py:216-222, 264-311: a non-blank row parses; its first line, stack,
\* blob and process begin.
BeginRow ==
    /\ pc = "rows"
    /\ x' = 0
    /\ y' = y
    /\ stack_no' = 0 /\ line_no' = 0
    /\ \E lm \in LineModes, bm \in BlobModes, lv \in LineVariantLists, sv \in StackVariantLists,
          unit \in UnitNodes :
          /\ line_text_mode' = lm /\ line_variants' = lv
          /\ blob_text_mode' = bm /\ stack_variants' = sv
          /\ BeginProcess(unit)

\* util.py:219-221: `if not row_maybe: continue`
SkipBlankRow ==
    /\ pc = "rows"
    /\ size < MaxSize
    /\ size' = size + 1
    /\ y' = y + 1
    /\ UNCHANGED <<pc, raised, paramVars, flagVars, parseVars, cacheVars, webVars, loadVars, depVars, modeVars, textVars, inputVars, gridVars,
                   x, dx, dy, t, last_hack, err, dimVars, histVars>>

\* util.py:314: the next process of the same blob
NextProcess ==
    /\ pc = "between"
    /\ UNCHANGED <<x, y, modeVars, stack_no, line_no>>
    /\ \E unit \in UnitNodes : BeginProcess(unit)

\* util.py:313: the next blob of the same blob stack
NextBlob ==
    /\ pc = "between"
    /\ UNCHANGED <<x, y, line_text_mode, line_variants, stack_no, line_no>>
    /\ \E bm \in BlobModes, sv \in StackVariantLists, unit \in UnitNodes :
          /\ blob_text_mode' = bm /\ stack_variants' = sv
          /\ BeginProcess(unit)

\* util.py:287, 419: the stack ends (x += 1) and the next stack of the line begins
NextStack ==
    /\ pc = "between"
    /\ x' = x + 1
    /\ stack_no' = stack_no + 1
    /\ UNCHANGED <<y, line_text_mode, line_variants, line_no>>
    /\ \E bm \in BlobModes, sv \in StackVariantLists, unit \in UnitNodes :
          /\ blob_text_mode' = bm /\ stack_variants' = sv
          /\ BeginProcess(unit)

\* The next line of the row with the column counter started again at 0
NextLineRestartsColumn ==
    /\ pc = "between"
    /\ x' = 0
    /\ y' = y
    /\ stack_no' = stack_no + 1 /\ line_no' = line_no + 1
    /\ \E lm \in LineModes, bm \in BlobModes, lv \in LineVariantLists, sv \in StackVariantLists,
          unit \in UnitNodes :
          /\ line_text_mode' = lm /\ line_variants' = lv
          /\ blob_text_mode' = bm /\ stack_variants' = sv
          /\ BeginProcess(unit)

\* util.py:264, 419: the last stack of a line ends (x += 1) and the next line
\* of the row begins
NextLine ==
    /\ pc = "between"
    /\ x' = x + 1
    /\ y' = y
    /\ stack_no' = stack_no + 1 /\ line_no' = line_no + 1
    /\ \E lm \in LineModes, bm \in BlobModes, lv \in LineVariantLists, sv \in StackVariantLists,
          unit \in UnitNodes :
          /\ line_text_mode' = lm /\ line_variants' = lv
          /\ blob_text_mode' = bm /\ stack_variants' = sv
          /\ BeginProcess(unit)

\* util.py:216, 419: the last stack of the row ends; the line and blob context
\* goes out of use
EndRow ==
    /\ pc = "between"
    /\ x' = x + 1
    /\ y' = y + 1
    /\ pc' = "rows"
    /\ line_text_mode' = "None" /\ line_variants' = <<>>
    /\ blob_text_mode' = "None" /\ stack_variants' = <<>>
    /\ UNCHANGED <<raised, paramVars, flagVars, parseVars, cacheVars, webVars, loadVars, depVars, textVars, inputVars, gridVars, dx, dy, t,
                   last_hack, err, dimVars, size, histVars>>

\* previous_tile.append(still) instead of the slice assignment
AppendInsteadOfReplace(list, item) == Append(list, item)

\* previous_tile[-1:] = [still]
ReplaceLastSlice(list, item) ==
    IF list = <<>> THEN <<item>> ELSE SubSeq(list, 1, Len(list) - 1) \o <<item>>

\* The loop of util.py:380-381 over range(count - 1): one placement short.
RECURSIVE PlaceRunOneShort(_, _, _, _, _, _)
PlaceRunOneShort(grid, px, py, pt, count, still) ==
    IF count <= 1 THEN grid
    ELSE PlaceRunOneShort(SetDefaultAppend(grid, <<px, py, pt>>, still),
                          px, py, pt + 1, count - 1, still)

\* util.py:380-381
RECURSIVE PlaceRun(_, _, _, _, _, _)
PlaceRun(grid, px, py, pt, count, still) ==
    IF count <= 0 THEN grid
    ELSE PlaceRun(SetDefaultAppend(grid, <<px, py, pt>>, still),
                  px, py, pt + 1, count - 1, still)

\* util.py:367-398
Transform(count, unit) ==
    /\ pc = "changes"
    /\ size + count <= MaxSize
    /\ size' = size + count
    /\ last_hack' = FALSE
    /\ LET popped == temp_tile[Len(temp_tile)]
           rest == SubSeq(temp_tile, 1, Len(temp_tile) - 1)
           marked == [popped EXCEPT !.ephemeral = TRUE]
       IN  IF IsPrevious(marked) /\ previous_tile = <<>>
           THEN /\ raised' = IndexError
                /\ pc' = "error"
                /\ temp_tile' = rest
                /\ UNCHANGED <<expanded_tiles, previous_tile, t, unit_variants>>
           ELSE LET still == IF IsPrevious(marked)
                             THEN previous_tile[Len(previous_tile)]
                             ELSE marked
                    r == HandleTextMode(unit.object, blob_text_mode, line_text_mode, is_rule)
                    final_variants ==
                        AppendExtraVariants(unit.variants, stack_variants, line_variants)
                IN  /\ unit_variants' = unit.variants
                    /\ previous_tile' = IF IsPrevious(marked) THEN previous_tile
                                        ELSE ReplaceLastSlice(previous_tile, still)
                    /\ expanded_tiles' = PlaceRun(expanded_tiles, x + dx, y + dy, t, count, still)
                    /\ IF r.raised = NoError
                       THEN /\ temp_tile' = Append(rest, RawTile(r.value, final_variants, FALSE))
                            /\ t' = t + count
                            /\ pc' = pc
                            /\ raised' = raised
                       ELSE /\ temp_tile' = rest
                            /\ t' = t
                            /\ pc' = "error"
                            /\ raised' = r.raised
    /\ last_change' = "transform"
    /\ UNCHANGED <<paramVars, flagVars, parseVars, cacheVars, webVars, loadVars, depVars, modeVars, textVars, inputVars, x, y, dx, dy, err, dimVars,
                   authored, stack_no, line_no>>

\* util.py:400-415
OperationResult(oper, result) ==
    /\ expanded_tiles' = result.grid
    /\ IF result.raised = NoError
       THEN /\ dx' = dx + result.delta[1]
            /\ dy' = dy + result.delta[2]
            /\ t' = t + result.delta[3]
            /\ UNCHANGED <<pc, raised, err>>
       ELSE /\ err' = result.raised
            /\ raised' = RaiseOperationError(result.raised)
            /\ pc' = "error"
            /\ UNCHANGED <<dx, dy, t>>

Operation(oper) ==
    /\ pc = "changes"
    /\ size < MaxSize
    /\ size' = size + 1
    /\ last_hack' = TRUE
    /\ \E result \in ExpandIntoResults(expanded_tiles, temp_tile,
                                        <<x + dx, y + dy, t>>, oper) :
           OperationResult(oper, result)
    /\ last_change' = "operation"
    /\ UNCHANGED <<paramVars, flagVars, parseVars, cacheVars, webVars, loadVars, depVars, modeVars, textVars, inputVars, previous_tile, temp_tile,
                   x, y, dimVars, authored, stack_no, line_no,
                   unit_variants>>

\* util.py:416-418 without the `if not last_hack` test
EndProcessAlwaysPlaces ==
    /\ pc = "changes"
    /\ expanded_tiles' = SetDefaultExtend(expanded_tiles, <<x + dx, y + dy, t>>, temp_tile)
    /\ pc' = "between"
    /\ temp_tile' = <<>>
    /\ dx' = 0 /\ dy' = 0 /\ t' = 0 /\ last_hack' = FALSE
    /\ last_change' = "none"
    /\ UNCHANGED <<raised, paramVars, flagVars, parseVars, cacheVars, webVars, loadVars, depVars, modeVars, textVars, inputVars, previous_tile,
                   x, y, err, dimVars, size, authored, stack_no, line_no,
                   unit_variants>>

\* util.py:416-418: the chain of changes is over; the locals of the process go
\* out of use
EndProcess ==
    /\ pc = "changes"
    /\ expanded_tiles' = IF ~last_hack
                         THEN SetDefaultExtend(expanded_tiles, <<x + dx, y + dy, t>>, temp_tile)
                         ELSE expanded_tiles
    /\ pc' = "between"
    /\ temp_tile' = <<>>
    /\ dx' = 0 /\ dy' = 0 /\ t' = 0 /\ last_hack' = FALSE
    /\ last_change' = "none"
    /\ UNCHANGED <<raised, paramVars, flagVars, parseVars, cacheVars, webVars, loadVars, depVars, modeVars, textVars, inputVars, previous_tile,
                   x, y, err, dimVars, size, authored, stack_no, line_no,
                   unit_variants>>

\* util.py:211, 216: the rows are exhausted; the text that passed the blank
\* check is not empty, so splitlines() gave at least one row
EndWalk ==
    /\ pc = "rows"
    /\ y > 0
    /\ pc' = "dims"
    /\ UNCHANGED <<raised, paramVars, flagVars, parseVars, cacheVars, webVars, loadVars, depVars, modeVars, textVars, inputVars, gridVars,
                   cursorVars, err, dimVars, size, histVars>>

Walk ==
    \/ BeginRow \/ SkipBlankRow \/ NextProcess \/ NextBlob \/ NextStack
    \/ NextLine \/ EndRow \/ EndProcess \/ EndWalk
    \/ \E count \in RunLengths, unit \in UnitNodes : Transform(count, unit)
    \/ \E oper \in OperationNames : Operation(oper)

\* ==================================================== dimensions, padding
MaxOf(S) == CHOOSE m \in S : \A n \in S : n <= m

NotBlank(tile) == ~IsEmpty(tile)
NonEmptyEntry(entry) == Len(entry.stack) # 0

\* The filter of util.py:445 without the one of util.py:446: emptied stacks stay
FilterKeepsEmptiedKeys(grid) ==
    [i \in 1..Len(grid) |-> Entry(grid[i].key, SelectSeq(grid[i].stack, NotBlank))]

\* util.py:445-446
FilterBlanks(grid) ==
    SelectSeq([i \in 1..Len(grid) |-> Entry(grid[i].key, SelectSeq(grid[i].stack, NotBlank))],
              NonEmptyEntry)

\* The dimensions taken from the grid as the blank filter would leave it
DimensionsOfFiltered ==
    /\ pc = "dims"
    /\ LET kept == FilterBlanks(expanded_tiles)
       IN  IF kept = <<>>
           THEN /\ raised' = ValueError
                /\ pc' = "error"
                /\ UNCHANGED dimVars
           ELSE /\ width' = MaxOf({k[1] : k \in Keys(kept)}) + 1
                /\ height' = MaxOf({k[2] : k \in Keys(kept)}) + 1
                /\ duration' = 1 + MaxOf({k[3] : k \in Keys(kept)})
                /\ pc' = "pad"
                /\ UNCHANGED raised
    /\ UNCHANGED <<paramVars, flagVars, parseVars, cacheVars, webVars, loadVars, depVars, modeVars, textVars, inputVars, gridVars, cursorVars,
                   err, size, histVars>>

\* util.py:421-424; max() of an empty dict raises ValueError
Dimensions ==
    /\ pc = "dims"
    /\ IF expanded_tiles = <<>>
       THEN /\ raised' = ValueError
            /\ pc' = "error"
            /\ UNCHANGED dimVars
       ELSE /\ width' = MaxOf({k[1] : k \in Keys(expanded_tiles)}) + 1
            /\ height' = MaxOf({k[2] : k \in Keys(expanded_tiles)}) + 1
            /\ duration' = 1 + MaxOf({k[3] : k \in Keys(expanded_tiles)})
            /\ pc' = "pad"
            /\ UNCHANGED raised
    /\ UNCHANGED <<paramVars, flagVars, parseVars, cacheVars, webVars, loadVars, depVars, modeVars, textVars, inputVars, gridVars, cursorVars,
                   err, size, histVars>>

NotEphemeral(tile) == ~tile.ephemeral

\* [tile for tile in tile_stack if not tile.ephemeral]
Persistent(stack) == SelectSeq(stack, NotEphemeral)

Maximum(time, stack) == [t |-> time, stack |-> stack]

\* The iteration of util.py:428-435 without the comparison of times: the
\* entry inserted last wins.
RecordMaximumLastWins(maxima, entry) ==
    LET xy == <<entry.key[1], entry.key[2]>>
        time == entry.key[3]
        persistent == Persistent(entry.stack)
    IN  IF Len(persistent) # 0 THEN Put(maxima, xy, Maximum(time, persistent))
        ELSE maxima

\* util.py:428-435: one iteration of the loop over expanded_tiles.items()
RecordMaximum(maxima, entry) ==
    LET xy == <<entry.key[1], entry.key[2]>>
        time == entry.key[3]
        persistent == Persistent(entry.stack)
    IN  IF Has(maxima, xy) /\ Get(maxima, xy).t < time
        THEN IF Len(persistent) # 0 THEN Put(maxima, xy, Maximum(time, persistent))
             ELSE maxima
        ELSE IF ~Has(maxima, xy)
        THEN IF Len(persistent) # 0 THEN Put(maxima, xy, Maximum(time, persistent))
             ELSE maxima
        ELSE maxima

\* util.py:426-435: temporal_maxima after the entries from index i on
RECURSIVE TemporalMaximaFrom(_, _, _)
TemporalMaximaFrom(grid, i, maxima) ==
    IF i > Len(grid) THEN maxima
    ELSE TemporalMaximaFrom(grid, i + 1, RecordMaximum(maxima, grid[i]))

TemporalMaxima(grid) == TemporalMaximaFrom(grid, 1, <<>>)

\* The loop of util.py:438-442 over range(t_star, duration - 2): one frame short.
RECURSIVE PadColumnStopsEarly(_, _, _, _, _)
PadColumnStopsEarly(grid, xy, time, dur, stack) ==
    IF time >= dur - 2 THEN grid
    ELSE LET key == <<xy[1], xy[2], time + 1>>
             padded == IF ~Has(grid, key) THEN Put(grid, key, stack)
                       ELSE Put(grid, key, stack \o Get(grid, key))
         IN  PadColumnStopsEarly(padded, xy, time + 1, dur, stack)

\* The loop of util.py:438-442 over range(t_star, duration): one frame more.
RECURSIVE PadColumnOneFurther(_, _, _, _, _)
PadColumnOneFurther(grid, xy, time, dur, stack) ==
    IF time >= dur THEN grid
    ELSE LET key == <<xy[1], xy[2], time + 1>>
             padded == IF ~Has(grid, key) THEN Put(grid, key, stack)
                       ELSE Put(grid, key, stack \o Get(grid, key))
         IN  PadColumnOneFurther(padded, xy, time + 1, dur, stack)

\* util.py:438-442: `for t in range(t_star, duration - 1)` from frame `time` on
RECURSIVE PadColumn(_, _, _, _, _)
PadColumn(grid, xy, time, dur, stack) ==
    IF time >= dur - 1 THEN grid
    ELSE LET key == <<xy[1], xy[2], time + 1>>
             padded == IF ~Has(grid, key) THEN Put(grid, key, stack)
                       ELSE Put(grid, key, stack \o Get(grid, key))
         IN  PadColumn(padded, xy, time + 1, dur, stack)

\* util.py:437-442: the loop over temporal_maxima.items() from index i on
RECURSIVE PadFrom(_, _, _, _)
PadFrom(grid, maxima, i, dur) ==
    IF i > Len(maxima) THEN grid
    ELSE PadFrom(PadColumn(grid, maxima[i].key, maxima[i].stack.t, dur,
                           maxima[i].stack.stack),
                 maxima, i + 1, dur)

PadGrid(grid, dur) == PadFrom(grid, TemporalMaxima(grid), 1, dur)

\* util.py:426-442
Pad ==
    /\ pc = "pad"
    /\ expanded_tiles' = PadGrid(expanded_tiles, duration)
    /\ authored' = expanded_tiles
    /\ pc' = "filter"
    /\ UNCHANGED <<raised, paramVars, flagVars, parseVars, cacheVars, webVars, loadVars, depVars, modeVars, textVars, inputVars, previous_tile,
                   temp_tile, cursorVars, err, dimVars, size, last_change,
                   stack_no, line_no, unit_variants>>

Filter ==
    /\ pc = "filter"
    /\ expanded_tiles' = FilterBlanks(expanded_tiles)
    /\ pc' = "limits"
    /\ UNCHANGED <<raised, paramVars, flagVars, parseVars, cacheVars, webVars, loadVars, depVars, modeVars, textVars, inputVars, previous_tile,
                   temp_tile, cursorVars, err, dimVars, size, histVars>>

\* ================================================================ limits
\* constants.MAX_VOLUME, MAX_WIDTH, MAX_HEIGHT and MAX_DURATION
\* (src/constants.py is not part of the sources at hand), scaled down to the
\* grids a request of MaxSize can build.
MAX_VOLUME == 4
MAX_WIDTH == 2
MAX_HEIGHT == 2
MAX_DURATION == 2

\* The checks of util.py:450-461 without the one on the height.
LimitErrorSkipsHeight(w, h, d) ==
    IF w * h * d > MAX_VOLUME
    THEN WebappUserError("Too large of an animation", <<w * h * d, MAX_VOLUME>>)
    ELSE IF w > MAX_WIDTH
    THEN WebappUserError("Too wide", <<w, MAX_WIDTH>>)
    ELSE IF d > MAX_DURATION
    THEN WebappUserError("Too many frames", <<d, MAX_DURATION>>)
    ELSE NoError

\* util.py:450-461: the first check that fails decides the error
LimitError(w, h, d) ==
    IF w * h * d > MAX_VOLUME
    THEN WebappUserError("Too large of an animation", <<w * h * d, MAX_VOLUME>>)
    ELSE IF w > MAX_WIDTH
    THEN WebappUserError("Too wide", <<w, MAX_WIDTH>>)
    ELSE IF h > MAX_HEIGHT
    THEN WebappUserError("Too high", <<h, MAX_HEIGHT>>)
    ELSE IF d > MAX_DURATION
    THEN WebappUserError("Too many frames", <<d, MAX_DURATION>>)
    ELSE NoError

\* util.py:448-474: past the checks the grid is handed to
\* variant_handlers.handle_grid
CheckLimits ==
    /\ pc = "limits"
    /\ raised' = LimitError(width, height, duration)
    /\ pc' = IF raised'.type = "NoError" THEN "handle_grid" ELSE "error"
    /\ UNCHANGED <<paramVars, flagVars, parseVars, cacheVars, webVars, loadVars, depVars, modeVars, textVars, inputVars, gridVars, cursorVars,
                   err, dimVars, size, histVars>>

Next == Walk \/ Dimensions \/ Pad \/ Filter \/ CheckLimits

Spec == Init /\ [][Next]_vars

\* The same request handling over requests drawn with variants
InitVariants ==
    /\ pc = "rows"
    /\ raised = NoError
    /\ is_rule = FALSE
    /\ draw = "variants"
    /\ ModesIdle
    /\ TextIdle
    /\ InputIdle
    /\ FlagsIdle
    /\ ParseIdle
    /\ CacheIdle
    /\ ServicesIdle
    /\ WalkIdle

SpecVariants == InitVariants /\ [][Next]_vars

\* ====================================================== semantic failures
\* The exceptions of src/errors.py that reach render_tiles, with the args
\* their docstrings give them.  Tile names and texts are chunk sequences.
VariantErrorTypes ==
    {"VariantError", "BadMetaVariant", "BadPaletteIndex", "BadTilingVariant",
     "TileNotText", "BadLetterVariant", "TileDoesntExist", "UnknownVariant"}
TextGenerationErrorTypes ==
    {"TextGenerationError", "BadLetterStyle", "TooManyLines",
     "LeadingTrailingLineBreaks", "BadCharacter", "CustomTextTooLong"}

\* database.tile(name) is not None
KnownTiles == {<<"baba">>, <<"text_", "keke">>}
DatabaseTile(name) == name \in KnownTiles

FailingNames == {<<"tile_", "baba">>, <<"keke">>, <<"me">>}
FailingVariants == {<<"red">>, <<"m9">>}

\* what handle_grid, render_full_tiles and render may raise
RenderFailures ==
    {Exc("TileNotFound", "", <<n>>) : n \in FailingNames}
    \cup {Exc("BadTileProperty", "", <<n, <<"3", "4">>>>) : n \in FailingNames}
    \cup {Exc("EmptyTile", "", <<>>)}
    \cup {Exc("EmptyVariant", "", <<n>>) : n \in FailingNames}
    \cup {Exc(type, "", <<n, v, <<"extra">>>>) :
              type \in VariantErrorTypes, n \in FailingNames, v \in FailingVariants}
    \cup {Exc(type, "", <<n, <<"mode">>, <<"char">>>>) :
              type \in TextGenerationErrorTypes, n \in FailingNames}

\* what operation_macros.expand_into may raise
OperationFailures ==
    {Exc(type, "", <<oper, <<0, 0, 0>>, RawTile(n, <<>>, FALSE)>>) :
        type \in OperationErrorTypes, oper \in OperationNames, n \in FailingNames}

\* util.py:17-50
HandleVariantErrors(e) ==
    LET word == e.about[1]
        variant == e.about[2]
    IN  IF e.type = "BadTilingVariant"
        THEN WebappUserError("The variant {variant} for {word} is invalid, since it can't be applied to tiles with tiling type {tiling}.",
                             <<word, variant, e.about[3]>>)
        ELSE IF e.type = "TileNotText"
        THEN WebappUserError("The variant {variant} for {word} is invalid, since the tile is not text.",
                             <<word, variant>>)
        ELSE IF e.type = "BadPaletteIndex"
        THEN WebappUserError("The variant {variant} for {word} is invalid, since the color is outside the palette.",
                             <<word, variant>>)
        ELSE IF e.type = "BadLetterVariant"
        THEN WebappUserError("The variant {variant} for {word} is invalid, since letter-style text can only be 1 or 2 letters wide.",
                             <<word, variant>>)
        ELSE IF e.type = "BadMetaVariant"
        THEN WebappUserError("The variant {variant} for {word} is invalid. {depth} is greater than the maximum meta depth, which is {MAX_META_DEPTH}.",
                             <<word, variant, e.about[3]>>)
        ELSE IF e.type = "TileDoesntExist"
        THEN WebappUserError("The variant {variant} for {word} is invalid, since the tile doesn't exist in the database.",
                             <<word, variant>>)
        ELSE IF e.type = "UnknownVariant"
        THEN WebappUserError("The variant {variant} is not valid.", <<variant>>)
        ELSE WebappUserError("The variant {variant} for {word} is invalid.", <<word, variant>>)

\* util.py:52-80
HandleCustomTextErrors(e) ==
    LET text == e.about[1]
    IN  IF e.type = "BadLetterStyle"
        THEN WebappUserError("The text {text} couldn't be generated automatically, since letter style can only applied to a single row of text.",
                             <<text>>)
        ELSE IF e.type = "TooManyLines"
        THEN WebappUserError("The text {text} couldn't be generated automatically, since it has too many lines.",
                             <<text>>)
        ELSE IF e.type = "LeadingTrailingLineBreaks"
        THEN WebappUserError("The text {text} couldn't be generated automatically, since there's / characters at the start or end of the text.",
                             <<text>>)
        ELSE IF e.type = "BadCharacter"
        THEN WebappUserError("The text {text} couldn't be generated automatically, since the letter {char} doesn't exist in '{mode}' mode.",
                             <<text, e.about[3], e.about[2]>>)
        ELSE IF e.type = "CustomTextTooLong"
        THEN WebappUserError("The text {text} couldn't be generated automatically, since it's too long ({len(text)}).",
                             <<text>>)
        ELSE WebappUserError("The text {text} couldn't be generated automatically.", <<text>>)

InitRender ==
    /\ raised = NoError
    /\ is_rule \in BOOLEAN
    /\ draw = "names"
    /\ \/ pc = "handle_grid" /\ err \in RenderFailures
       \/ pc = "expand_into" /\ err \in OperationFailures
    /\ ModesIdle
    /\ TextIdle
    /\ InputIdle
    /\ FlagsIdle
    /\ ParseIdle
    /\ CacheIdle
    /\ ServicesIdle
    /\ expanded_tiles = <<>> /\ previous_tile = <<>> /\ temp_tile = <<>>
    /\ x = 0 /\ y = 0 /\ dx = 0 /\ dy = 0 /\ t = 0 /\ last_hack = FALSE
    /\ width = 0 /\ height = 0 /\ duration = 0
    /\ size = 0
    /\ last_change = "none" /\ authored = <<>>
    /\ stack_no = 0 /\ line_no = 0
    /\ unit_variants = <<>>

\* the handler ends the request with the exception `e`
EndsWith(e) ==
    /\ raised' = e
    /\ pc' = "error"
    /\ UNCHANGED <<paramVars, flagVars, parseVars, cacheVars, webVars, loadVars, depVars, modeVars, textVars, inputVars,
                   gridVars, cursorVars, err, dimVars, size, histVars>>

\* util.py:498-508
ExceptTileNotFound ==
    /\ pc = "handle_grid"
    /\ err.type = "TileNotFound"
    /\ LET name == err.about[1]
       IN  IF Head(name) = "tile_" /\ DatabaseTile(Tail(name))
           THEN EndsWith(WebappUserError("The tile {name} could not be found. Perhaps you meant {name[5:]}?",
                                         <<name, Tail(name)>>))
           ELSE IF DatabaseTile(<<"text_">> \o name)
           THEN EndsWith(WebappUserError("The tile {name} could not be found. Perhaps you meant {'text_' + name}?",
                                         <<name, <<"text_">> \o name>>))
           ELSE EndsWith(WebappUserError("The tile {name} could not be found.", <<name>>))

\* util.py:509-512
ExceptBadTileProperty ==
    /\ pc = "handle_grid"
    /\ err.type = "BadTileProperty"
    /\ EndsWith(WebappUserError("The tile {word.name} could not be made into a property, because it's too big ({w} by {h}).",
                                <<err.about[1], err.about[2]>>))

\* util.py:513-515
ExceptEmptyTile ==
    /\ pc = "handle_grid"
    /\ err.type = "EmptyTile"
    /\ EndsWith(WebappUserError("Cannot use blank tiles in that context.", <<>>))

\* util.py:516-523
ExceptEmptyVariant ==
    /\ pc = "handle_grid"
    /\ err.type = "EmptyVariant"
    /\ EndsWith(WebappUserError("You provided an empty variant for {word.name}.",
                                <<err.about[1]>>))

\* util.py:524-525  raise await handle_variant_errors(e) from e
ExceptVariantError ==
    /\ pc = "handle_grid"
    /\ err.type \in VariantErrorTypes
    /\ EndsWith(PyRaise(Await(Coroutine(HandleVariantErrors(err)))))

\* util.py:526-527  raise await handle_custom_text_errors(e) from e
ExceptTextGenerationError ==
    /\ pc = "handle_grid"
    /\ err.type \in TextGenerationErrorTypes
    /\ EndsWith(PyRaise(Await(Coroutine(HandleCustomTextErrors(err)))))

\* util.py:411-412  raise handle_operation_errors(err) from err
ExceptOperationError ==
    /\ pc = "expand_into"
    /\ err.type \in OperationErrorTypes
    /\ EndsWith(RaiseOperationError(err))

NextRender ==
    \/ ExceptTileNotFound \/ ExceptBadTileProperty \/ ExceptEmptyTile
    \/ ExceptEmptyVariant \/ ExceptVariantError \/ ExceptTextGenerationError
    \/ ExceptOperationError

SpecRender == InitRender /\ [][NextRender]_vars

\* ------------------------------------------------------------------- C17
\* the subtypes the handlers name, and the family of a failure
ListedSubtypes ==
    (VariantErrorTypes \ {"VariantError"})
    \cup (TextGenerationErrorTypes \ {"TextGenerationError"})
    \cup (OperationErrorTypes \ {"OperationError"})

GenericMessages ==
    {"The variant {variant} for {word} is invalid.",
     "The text {text} couldn't be generated automatically.",
     "The operation {operation} failed for {tile.name}."}

\* the message was formatted with `value`
Names(e, value) == \E i \in 1..Len(e.about) : e.about[i] = value

\* C17: every semantic failure is converted to exactly one WebappUserError;
\* a subtype the handlers list gets a message that is not its family's
\* generic one, and any other failure of the variant, text-generation or
\* operation family gets the generic message of its family, which names the
\* offending tile (or text) and the variant or operation.
C17_SemanticFailureMapping ==
    pc = "error" =>
        /\ raised.type = "WebappUserError"
        /\ err.type \in ListedSubtypes => raised.msg \notin GenericMessages
        /\ err.type = "VariantError" =>
              /\ raised.msg = "The variant {variant} for {word} is invalid."
              /\ Names(raised, err.about[1]) /\ Names(raised, err.about[2])
        /\ err.type = "TextGenerationError" =>
              /\ raised.msg = "The text {text} couldn't be generated automatically."
              /\ Names(raised, err.about[1])
        /\ err.type = "OperationError" =>
              /\ raised.msg = "The operation {operation} failed for {tile.name}."
              /\ Names(raised, err.about[1]) /\ Names(raised, err.about[3].name)

\* ==================================================== generated tiles
\* GeneratedTiles (WEBAPP.py:80-146) and the loop that disposes of expired
\* instances.  An instance is its index in `heap`; the dict keeps, for a
\* hash, the index of the instance cached under it.
Hashes == {1, 2}

\* config.py:43  timedelta(hours=1), in ticks of the model's clock
webapp_max_result_life == 2

Instance(input_hash, generated_at, tmp) ==
    [input_hash |-> input_hash, generated_at |-> generated_at, tmp |-> tmp]

\* WEBAPP.py:106-108
ExpiresAt(self) == heap[self].generated_at + webapp_max_result_life

\* cached_generated_tiles.pop(key)
Pop(d, key) ==
    LET Others(entry) == entry.key # key
    IN  SelectSeq(d, Others)

\* what a call left behind: the dict, the instances and how the call ended
Outcome(cache, instances, returned) ==
    [cache |-> cache, heap |-> instances, returned |-> returned]

\* WEBAPP.py:127-129
ForceDispose(cache, instances, self) ==
    Outcome(Pop(cache, instances[self].input_hash),
            [instances EXCEPT ![self].tmp = "closed"], "None")

\* try_dispose with `>=` in the place of `>`
TryDisposeAtExpiry(cache, instances, self, time) ==
    IF time >= instances[self].generated_at + webapp_max_result_life
    THEN IF ~Has(cache, instances[self].input_hash)
            \/ Get(cache, instances[self].input_hash) # self
         THEN Outcome(cache, instances, "raised")
         ELSE [ForceDispose(cache, instances, self) EXCEPT !.returned = "True"]
    ELSE Outcome(cache, instances, "False")

\* WEBAPP.py:115-125
TryDispose(cache, instances, self, time) ==
    IF time > instances[self].generated_at + webapp_max_result_life
    THEN IF ~Has(cache, instances[self].input_hash)
            \/ Get(cache, instances[self].input_hash) # self
         THEN Outcome(cache, instances, "raised")
         ELSE [ForceDispose(cache, instances, self) EXCEPT !.returned = "True"]
    ELSE Outcome(cache, instances, "False")

\* one try_dispose call as the loop's log keeps it
Call(self, at, returned) == [self |-> self, at |-> at, returned |-> returned]

\* a round that looks at one entry of the copy only
DisposeFirstOnly(copy, i, cache, instances, log) ==
    IF i > Len(copy) THEN [cache |-> cache, heap |-> instances, log |-> log]
    ELSE LET self == copy[i].stack
             out == TryDispose(cache, instances, self, now)
         IN  [cache |-> out.cache, heap |-> out.heap,
              log |-> Append(log, Call(self, now, out.returned))]

\* WEBAPP.py:159-161: the loop over the values of the copy, from index i on;
\* an exception out of try_dispose ends the loop
RECURSIVE DisposeFrom(_, _, _, _, _)
DisposeFrom(copy, i, cache, instances, log) ==
    IF i > Len(copy) THEN [cache |-> cache, heap |-> instances, log |-> log]
    ELSE LET self == copy[i].stack
             out == TryDispose(cache, instances, self, now)
             logged == Append(log, Call(self, now, out.returned))
         IN  IF out.returned = "raised"
             THEN [cache |-> out.cache, heap |-> out.heap, log |-> logged]
             ELSE DisposeFrom(copy, i + 1, out.cache, out.heap, logged)

InitCache ==
    /\ pc = "serving"
    /\ raised = NoError
    /\ is_rule = FALSE
    /\ draw = "names"
    /\ ModesIdle
    /\ TextIdle
    /\ InputIdle
    /\ FlagsIdle
    /\ ParseIdle
    /\ CacheIdle
    /\ ServicesIdle
    /\ WalkIdle

\* WEBAPP.py:86-100  GeneratedTiles.__init__
Construct(input_hash) ==
    /\ pc = "serving"
    /\ Len(heap) < MaxInstances
    /\ heap' = Append(heap, Instance(input_hash, now, "open"))
    /\ IF Has(cached_generated_tiles, input_hash)
       THEN UNCHANGED cached_generated_tiles
       ELSE cached_generated_tiles' = Put(cached_generated_tiles, input_hash, Len(heap) + 1)
    /\ UNCHANGED <<pc, raised, paramVars, flagVars, parseVars, webVars, loadVars, depVars, now, dispose_log,
                   modeVars, textVars, inputVars, gridVars, cursorVars, err, dimVars,
                   size, histVars>>

\* the clock moves on
Tick ==
    /\ pc = "serving"
    /\ now < MaxTime
    /\ now' = now + 1
    /\ UNCHANGED <<pc, raised, paramVars, flagVars, parseVars, webVars, loadVars, depVars, cached_generated_tiles,
                   heap, dispose_log, modeVars, textVars, inputVars, gridVars,
                   cursorVars, err, dimVars, size, histVars>>

\* WEBAPP.py:155-161: one round of dispose_expired_generated_tiles_loop; there
\* is no await between the copy and the end of the for loop
DisposeRound ==
    /\ pc = "serving"
    /\ LET out == DisposeFrom(cached_generated_tiles, 1, cached_generated_tiles, heap, <<>>)
       IN  /\ cached_generated_tiles' = out.cache
           /\ heap' = out.heap
           /\ dispose_log' = out.log
           /\ pc' = IF \E k \in 1..Len(out.log) : out.log[k].returned = "raised"
                    THEN "loop_ended" ELSE pc
    /\ UNCHANGED <<raised, paramVars, flagVars, parseVars, webVars, loadVars, depVars, now, modeVars, textVars,
                   inputVars, gridVars, cursorVars, err, dimVars, size, histVars>>

NextCache == (\E input_hash \in Hashes : Construct(input_hash)) \/ Tick \/ DisposeRound

SpecCache == InitCache /\ [][NextCache]_vars

\* ------------------------------------------------------------------- C19
Cached(cache) == {cache[i].stack : i \in 1..Len(cache)}

\* C19: try_dispose disposes of the entry (closes its temp file and removes
\* it from cached_generated_tiles) and returns True if and only if the
\* current time is after expires_at = generated_at + webapp_max_result_life;
\* otherwise it returns False and leaves the cache and the temp file as they
\* are.  So the dispose loop removes no entry before it has expired.
C19_TryDisposeOnlyWhenExpired ==
    /\ [](\A k \in 1..Len(dispose_log) :
            /\ dispose_log[k].returned \in {"True", "False"}
            /\ dispose_log[k].returned = "True" <=>
                   dispose_log[k].at > ExpiresAt(dispose_log[k].self))
    /\ [][DisposeRound =>
            \A self \in Cached(cached_generated_tiles) :
                IF now > ExpiresAt(self)
                THEN /\ self \notin Cached(cached_generated_tiles')
                     /\ heap'[self].tmp = "closed"
                ELSE /\ self \in Cached(cached_generated_tiles')
                     /\ heap'[self].tmp = heap[self].tmp
                     /\ heap'[self].tmp = "open"
         ]_vars

\* one round met an expired entry and one that expires exactly now: the
\* first went, the second stayed
C19_Witness ==
    /\ Len(dispose_log) = 2
    /\ dispose_log[1].returned = "True"
    /\ dispose_log[2].returned = "False"
    /\ dispose_log[2].at = ExpiresAt(dispose_log[2].self)
    /\ heap[dispose_log[1].self].tmp = "closed"
    /\ Cached(cached_generated_tiles) = {dispose_log[2].self}

\* ======================================================== web handlers
\* handle_render_tiles and handle_send_result (WEBAPP.py:222-264) over the
\* cache above.  A request is handled in two steps, before and after its
\* `await render_tiles(...)`; other coroutines run in between.
WebHashes == {-1, 2}
\* a hash nothing was ever rendered under
UnknownHashes == {3}

\* int.to_bytes(length, byteorder="big", signed=True)
RECURSIVE ToBytes(_, _)
ToBytes(n, length) ==
    IF length = 0 THEN <<>>
    ELSE Append(ToBytes(n \div 256, length - 1), n % 256)

RECURSIVE Unsigned(_)
Unsigned(bytes) ==
    IF bytes = <<>> THEN 0
    ELSE Unsigned(SubSeq(bytes, 1, Len(bytes) - 1)) * 256 + bytes[Len(bytes)]

\* int.from_bytes(bytes, byteorder="big", signed=True)
FromBytes(bytes) ==
    IF bytes # <<>> /\ bytes[1] >= 128
    THEN -Unsigned([i \in 1..Len(bytes) |-> 255 - bytes[i]]) - 1
    ELSE Unsigned(bytes)

\* WEBAPP.py:102-105  result_url_hash: the text is kept as the bytes it encodes
ResultUrlHash(input_hash) == [b64 |-> ToBytes(input_hash, 8)]

\* WEBAPP.py:143-147
ResultUrlHashToInputHash(result_url_hash) == FromBytes(result_url_hash.b64)

\* what `await render_tiles(...)` gives back to WEBAPP.py:232-236
RenderOutcomes == {"buffer", "WebappUserError"}
ErrorText == "error text"

\* a handle_render_tiles call: where it stands and what it answered
Request(input_hash, state, status, result_url_hash, detail) ==
    [input_hash |-> input_hash, state |-> state, status |-> status,
     result_url_hash |-> result_url_hash, detail |-> detail]

\* WEBAPP.py:241-244
RenderTilesResponse(instances, self) ==
    [status |-> 200, result_url_hash |-> ResultUrlHash(instances[self].input_hash),
     detail |-> ""]

\* an exception FastAPI turns into an answer
HTTPException(status_code, detail) ==
    [status |-> status_code, result_url_hash |-> [b64 |-> <<>>], detail |-> detail]

Handled(cache, instances, answer) ==
    [cache |-> cache, heap |-> instances, answer |-> answer]

\* the handler with the instance cached even when render_tiles failed
AfterRenderCachesFailures(cache, instances, input_hash, outcome, time) ==
    LET made == Append(instances, Instance(input_hash, time, "open"))
        self == Len(made)
    IN  IF Has(cache, input_hash)
        THEN Handled(cache, made, HTTPException(500, "Collision when creating GeneratedTiles"))
        ELSE Handled(Put(cache, input_hash, self), made, RenderTilesResponse(made, self))

\* WEBAPP.py:233-237 and 86-100: what follows the await
AfterRender(cache, instances, input_hash, outcome, time) ==
    IF outcome = "WebappUserError"
    THEN Handled(cache, instances, HTTPException(400, ErrorText))
    ELSE LET made == Append(instances, Instance(input_hash, time, "open"))
             self == Len(made)
         IN  IF Has(cache, input_hash)
             THEN Handled(cache, made,
                          HTTPException(500, "Collision when creating GeneratedTiles"))
             ELSE Handled(Put(cache, input_hash, self), made,
                          RenderTilesResponse(made, self))

\* WEBAPP.py:226-232 and 238-244: up to the await, or the whole call on a hit
ReceiveRenderTiles(input_hash) ==
    /\ pc = "serving"
    /\ Len(requests) < MaxRequests
    /\ requests' = Append(requests,
          IF Has(cached_generated_tiles, input_hash)
          THEN LET answer == RenderTilesResponse(heap, Get(cached_generated_tiles, input_hash))
               IN  Request(input_hash, "hit", answer.status, answer.result_url_hash,
                           answer.detail)
          ELSE Request(input_hash, "rendering", 0, [b64 |-> <<>>], ""))
    /\ UNCHANGED <<pc, raised, paramVars, flagVars, parseVars, cacheVars, sent, loadVars,
                   depVars, modeVars, textVars, inputVars, gridVars, cursorVars, err,
                   dimVars, size, histVars>>

\* WEBAPP.py:232-244: render_tiles comes back
FinishRenderTiles(i, outcome) ==
    /\ pc = "serving"
    /\ i \in 1..Len(requests)
    /\ requests[i].state = "rendering"
    /\ LET out == AfterRender(cached_generated_tiles, heap, requests[i].input_hash,
                              outcome, now)
       IN  /\ cached_generated_tiles' = out.cache
           /\ heap' = out.heap
           /\ requests' = [requests EXCEPT ![i] =
                  Request(requests[i].input_hash, outcome, out.answer.status,
                          out.answer.result_url_hash, out.answer.detail)]
    /\ UNCHANGED <<pc, raised, paramVars, flagVars, parseVars, now, dispose_log, sent,
                   loadVars, depVars, modeVars, textVars, inputVars, gridVars, cursorVars,
                   err, dimVars, size, histVars>>

\* an answer of handle_send_result
Answer(status, body, max_age) == [status |-> status, body |-> body, max_age |-> max_age]

\* WEBAPP.py:248-264
HandleSendResult(cache, instances, result_url_hash, time) ==
    LET input_hash == ResultUrlHashToInputHash(result_url_hash)
    IN  IF ~Has(cache, input_hash)
        THEN Answer(404, "Unknown hash", 0)
        ELSE LET generated_tiles == Get(cache, input_hash)
                 expires_at == instances[generated_tiles].generated_at
                                   + webapp_max_result_life
             IN  Answer(200, "image/gif", expires_at - time)

SendResult(result_url_hash) ==
    /\ pc = "serving"
    /\ sent' = HandleSendResult(cached_generated_tiles, heap, result_url_hash, now)
    /\ UNCHANGED <<pc, raised, paramVars, flagVars, parseVars, cacheVars, requests, loadVars,
                   depVars, modeVars, textVars, inputVars, gridVars, cursorVars, err,
                   dimVars, size, histVars>>

\* WEBAPP.py:50-61: the application closes; the loop is cancelled and what is
\* left in the cache is disposed of
RECURSIVE ForceDisposeAll(_, _, _)
ForceDisposeAll(leftover, cache, instances) ==
    IF leftover = <<>> THEN Outcome(cache, instances, "None")
    ELSE LET out == ForceDispose(cache, instances, Head(leftover).stack)
         IN  ForceDisposeAll(Tail(leftover), out.cache, out.heap)

Shutdown ==
    /\ pc = "serving"
    /\ pc' = "closed"
    /\ LET out == ForceDisposeAll(cached_generated_tiles, cached_generated_tiles, heap)
       IN  /\ cached_generated_tiles' = out.cache
           /\ heap' = out.heap
    /\ UNCHANGED <<raised, paramVars, flagVars, parseVars, now, dispose_log, webVars,
                   loadVars, depVars, modeVars, textVars, inputVars, gridVars, cursorVars,
                   err, dimVars, size, histVars>>

SendableHashes == {ResultUrlHash(h) : h \in WebHashes \cup UnknownHashes}

NextWeb ==
    \/ \E input_hash \in WebHashes : ReceiveRenderTiles(input_hash)
    \/ \E i \in 1..MaxRequests, outcome \in RenderOutcomes : FinishRenderTiles(i, outcome)
    \/ \E result_url_hash \in SendableHashes : SendResult(result_url_hash)
    \/ Tick
    \/ DisposeRound
    \/ Shutdown

SpecWeb == InitCache /\ [][NextWeb]_vars

\* The cache under render requests, the dispose loop and shutdown, with the
\* clock running and the loop task scheduled again and again
\* (WEBAPP.py:46, 155-156)
NextLoop ==
    \/ \E input_hash \in Hashes : Len(heap) < MaxRendered /\ Construct(input_hash)
    \/ Tick
    \/ DisposeRound
    \/ Shutdown

SpecLoopLive ==
    InitCache /\ [][NextLoop]_vars /\ WF_vars(Tick) /\ WF_vars(DisposeRound)

\* ============================================================ load flags
\* load and the loaders it calls (load.py:20-58, 584-602).  A flag or a
\* pattern is the sequence of its pieces, "tiles.initial" being
\* <<"tiles", ".", "initial">>; "*" is the glob star.
Loader(flag, description) == [flag |-> flag, description |-> description]

\* load.py:62, 223, 309, 561 and 584-590
loaders ==
    << Loader(<<"tiles", ".", "initial">>, "initial tiles"),
       Loader(<<"tiles", ".", "editor">>, "initial editor"),
       Loader(<<"tiles", ".", "custom">>, "initial custom"),
       Loader(<<"letters", ".", "vanilla">>, "vanilla letters") >>

\* the --force lists drawn (loader.py:20)
ForceFlagLists ==
    { <<>>,
      << <<"*">> >>,
      << <<"tiles", ".", "*">> >>,
      << <<"letters", ".", "vanilla">> >>,
      << <<"tiles", ".", "editor">>, <<"letters", "*">> >> }

\* fnmatch.fnmatch(name, pat) for patterns made of pieces and stars
RECURSIVE FnMatch(_, _)
FnMatch(name, pat) ==
    IF pat = <<>> THEN name = <<>>
    ELSE IF Head(pat) = "*"
         THEN \/ FnMatch(name, Tail(pat))
              \/ name # <<>> /\ FnMatch(Tail(name), pat)
         ELSE /\ name # <<>>
              /\ Head(name) = Head(pat)
              /\ FnMatch(Tail(name), Tail(pat))

\* load.py:599
ForceLoad(flag, forced) == \E k \in 1..Len(forced) : FnMatch(flag, forced[k])

\* what the body of a loader may do
BodyOutcomes == {"completed", "raised"}

LoaderResult(table, did) == [load_flags |-> table, did |-> did]

\* the loader call with the flag recorded before the body runs
LoaderCallRecordsFirst(table, flag, skip_flag_check, body) ==
    IF ~skip_flag_check /\ flag \in table THEN LoaderResult(table, "skipped")
    ELSE LoaderResult(table \cup {flag}, IF body = "completed" THEN "loaded" ELSE "raised")

\* load.py:26-53  LoadFlagHandlers.__call__
LoaderCall(table, flag, skip_flag_check, body) ==
    IF ~skip_flag_check /\ flag \in table THEN LoaderResult(table, "skipped")
    ELSE IF body = "completed" THEN LoaderResult(table \cup {flag}, "loaded")
    ELSE LoaderResult(table, "raised")

\* one line of the history: which loader of which load call, and what it did
Logged(call, no, flag, forced, did) ==
    [call |-> call, no |-> no, flag |-> flag, forced |-> forced, did |-> did]

InitLoad ==
    /\ pc = "idle"
    /\ raised = NoError
    /\ is_rule = FALSE
    /\ draw = "names"
    /\ ModesIdle
    /\ TextIdle
    /\ InputIdle
    /\ FlagsIdle
    /\ ParseIdle
    /\ CacheIdle
    /\ ServicesIdle
    /\ WalkIdle

\* load.py:592-596: load(db, force_flags) is called
CallLoad(forced) ==
    /\ pc = "idle"
    /\ load_calls < MaxLoads
    /\ load_calls' = load_calls + 1
    /\ force_flags' = forced
    /\ loader_no' = 1
    /\ pc' = "loading"
    /\ UNCHANGED <<raised, paramVars, flagVars, parseVars, cacheVars, webVars, load_flags,
                   load_log, depVars, modeVars, textVars, inputVars, gridVars, cursorVars,
                   err, dimVars, size, histVars>>

\* load.py:598-600: one turn of `for loader in loaders`; an exception out of
\* the loader ends the load call
CallLoader(body) ==
    /\ pc = "loading"
    /\ LET loader == loaders[loader_no]
           force_load == ForceLoad(loader.flag, force_flags)
           out == LoaderCall(load_flags, loader.flag, force_load, body)
           over == out.did = "raised" \/ loader_no = Len(loaders)
       IN  /\ load_flags' = out.load_flags
           /\ load_log' = Append(load_log,
                  Logged(load_calls, loader_no, loader.flag, force_load, out.did))
           /\ loader_no' = IF over THEN 0 ELSE loader_no + 1
           /\ force_flags' = IF over THEN <<>> ELSE force_flags
           /\ pc' = IF over THEN "idle" ELSE pc
    /\ UNCHANGED <<raised, paramVars, flagVars, parseVars, cacheVars, webVars, load_calls,
                   depVars, modeVars, textVars, inputVars, gridVars, cursorVars, err,
                   dimVars, size, histVars>>

NextLoad ==
    \/ \E forced \in ForceFlagLists : CallLoad(forced)
    \/ \E body \in BodyOutcomes : CallLoader(body)

SpecLoad == InitLoad /\ [][NextLoad]_vars

\* ========================================================== dependencies
\* get_database and get_variant_handlers (dependencies.py:11-39).  A call
\* runs up to its first await that suspends, `await _db.connect(db_path)`;
\* other calls run until connect ends.
Database(connected) == [connected |-> connected]
VariantHandlers(database) == [database |-> database]

\* a call: the getter, where it stands, the Database get_database made or
\* handed to it (0: none), whether that Database was connected when the
\* call got it, and the VariantHandlers returned (0: none)
Caller(fn, state, database, connected, got) ==
    [fn |-> fn, state |-> state, database |-> database, connected |-> connected,
     got |-> got]

Getters == {"get_database", "get_variant_handlers"}
ConnectOutcomes == {"connected", "raised"}

InitDeps ==
    /\ pc = "deps"
    /\ raised = NoError
    /\ is_rule = FALSE
    /\ draw = "names"
    /\ ModesIdle
    /\ TextIdle
    /\ InputIdle
    /\ FlagsIdle
    /\ ParseIdle
    /\ CacheIdle
    /\ ServicesIdle
    /\ WalkIdle

\* dependencies.py:15-19 up to the await: _db is assigned before connect
\* is awaited
GetDatabase ==
    /\ pc = "deps"
    /\ Len(callers) < MaxCallers
    /\ IF _db = 0
       THEN /\ databases' = Append(databases, Database(FALSE))
            /\ _db' = Len(databases) + 1
            /\ callers' = Append(callers,
                   Caller("get_database", "connecting", Len(databases) + 1, FALSE, 0))
       ELSE /\ callers' = Append(callers,
                   Caller("get_database", "returned", _db, databases[_db].connected, 0))
            /\ UNCHANGED <<_db, databases>>
    /\ UNCHANGED <<pc, raised, paramVars, flagVars, parseVars, cacheVars, webVars, loadVars,
                   _variant_handlers, handlers, modeVars, textVars, inputVars, gridVars,
                   cursorVars, err, dimVars, size, histVars>>

\* dependencies.py:35-39 with the get_database call of line 36 up to its await
GetVariantHandlers ==
    /\ pc = "deps"
    /\ Len(callers) < MaxCallers
    /\ IF _variant_handlers # 0
       THEN /\ callers' = Append(callers,
                   Caller("get_variant_handlers", "returned", 0, TRUE, _variant_handlers))
            /\ UNCHANGED <<_db, databases, _variant_handlers, handlers>>
       ELSE IF _db = 0
       THEN /\ databases' = Append(databases, Database(FALSE))
            /\ _db' = Len(databases) + 1
            /\ callers' = Append(callers,
                   Caller("get_variant_handlers", "connecting", Len(databases) + 1, FALSE, 0))
            /\ UNCHANGED <<_variant_handlers, handlers>>
       ELSE /\ handlers' = Append(handlers, VariantHandlers(_db))
            /\ _variant_handlers' = Len(handlers) + 1
            /\ callers' = Append(callers,
                   Caller("get_variant_handlers", "returned", _db, databases[_db].connected,
                          Len(handlers) + 1))
            /\ UNCHANGED <<_db, databases>>
    /\ UNCHANGED <<pc, raised, paramVars, flagVars, parseVars, cacheVars, webVars, loadVars,
                   modeVars, textVars, inputVars, gridVars, cursorVars, err, dimVars, size,
                   histVars>>

\* dependencies.py:17-19 (and 36-39): connect ends and the call goes on
ConnectEnds(c, outcome) ==
    /\ pc = "deps"
    /\ c \in 1..Len(callers)
    /\ callers[c].state = "connecting"
    /\ IF outcome = "raised"
       THEN /\ callers' = [callers EXCEPT ![c].state = "raised"]
            /\ UNCHANGED <<_db, databases, _variant_handlers, handlers>>
       ELSE /\ databases' = [databases EXCEPT ![callers[c].database].connected = TRUE]
            /\ UNCHANGED _db
            /\ IF callers[c].fn = "get_database"
               THEN /\ callers' = [callers EXCEPT ![c] =
                           Caller("get_database", "returned", _db, TRUE, 0)]
                    /\ UNCHANGED <<_variant_handlers, handlers>>
               ELSE /\ handlers' = Append(handlers, VariantHandlers(_db))
                    /\ _variant_handlers' = Len(handlers) + 1
                    /\ callers' = [callers EXCEPT ![c] =
                           Caller("get_variant_handlers", "returned", _db, TRUE,
                                  Len(handlers) + 1)]
    /\ UNCHANGED <<pc, raised, paramVars, flagVars, parseVars, cacheVars, webVars, loadVars,
                   modeVars, textVars, inputVars, gridVars, cursorVars, err, dimVars, size,
                   histVars>>

NextDeps ==
    \/ GetDatabase
    \/ GetVariantHandlers
    \/ \E c \in 1..MaxCallers, outcome \in ConnectOutcomes : ConnectEnds(c, outcome)

SpecDeps == InitDeps /\ [][NextDeps]_vars

\* =============================================================== claims
StackAt(grid, key) == IF Has(grid, key) THEN Get(grid, key) ELSE <<>>
Last(list) == list[Len(list)]
Columns(grid) == {<<k[1], k[2]>> : k \in Keys(grid)}

\* -------------------------------------------------------------------- C3
\* C3: when expand_into fails with an OperationError, the request ends with
\* the user-facing Operation error built by handle_operation_errors.
C3_OperationErrorIsUserError ==
    (err.type \in OperationErrorTypes) =>
        /\ pc = "error"
        /\ raised.type = "WebappUserError"
        /\ raised.msg = HandleOperationErrors(err).msg

\* -------------------------------------------------------------------- C5
LimitsChecked == pc = "handle_grid" \/ (pc = "error" /\ width > 0)

\* the (measured value, configured limit) pairs of the limits exceeded
Exceeded(w, h, d) ==
    {pair \in {<<w * h * d, MAX_VOLUME>>, <<w, MAX_WIDTH>>, <<h, MAX_HEIGHT>>,
               <<d, MAX_DURATION>>} : pair[1] > pair[2]}

\* C5: a grid over any of the four limits ends the request with a
\* WebappUserError carrying a measured value and the limit it exceeds, and
\* only grids within all four limits are handed to handle_grid.
C5_LimitsEnforced ==
    LimitsChecked =>
        IF Exceeded(width, height, duration) # {}
        THEN /\ pc = "error"
             /\ raised.type = "WebappUserError"
             /\ raised.about \in Exceeded(width, height, duration)
        ELSE /\ pc = "handle_grid"
             /\ raised.type = "NoError"

C5_Witness ==
    /\ pc = "error"
    /\ raised.msg = "Too high"
    /\ height = MAX_HEIGHT + 1
    /\ width * height * duration <= MAX_VOLUME

\* ---------------------------------------------------------------- C6, C7
\* the times at which column xy of the grid holds a non-ephemeral tile
PersistentTimes(grid, xy) ==
    {k[3] : k \in {q \in Keys(grid) : q[1] = xy[1] /\ q[2] = xy[2]
                                      /\ Persistent(Get(grid, q)) # <<>>}}

TStar(grid, xy) == MaxOf(PersistentTimes(grid, xy))
PersistentAt(grid, xy) == Persistent(Get(grid, <<xy[1], xy[2], TStar(grid, xy)>>))
HasNonBlank(stack) == \E i \in 1..Len(stack) : ~IsEmpty(stack[i])

Padded == pc \in {"filter", "limits", "handle_grid"}
Filtered == pc \in {"limits", "handle_grid"}

\* C6 as stated: after padding and the blank filter, every column with a
\* persistent stack at its last authored time t* has a non-empty stack at
\* every frame t* < t < duration.
C6_AsStated ==
    Filtered =>
        \A xy \in Columns(authored) :
            PersistentTimes(authored, xy) # {} =>
                \A time \in (TStar(authored, xy) + 1)..(duration - 1) :
                    StackAt(expanded_tiles, <<xy[1], xy[2], time>>) # <<>>

\* C6 amended: the same for every column whose persistent stack at t* holds
\* at least one tile that is not blank.
C6_NonBlankPersistentStackFillsLaterFrames ==
    Filtered =>
        \A xy \in Columns(authored) :
            (PersistentTimes(authored, xy) # {} /\ HasNonBlank(PersistentAt(authored, xy))) =>
                \A time \in (TStar(authored, xy) + 1)..(duration - 1) :
                    StackAt(expanded_tiles, <<xy[1], xy[2], time>>) # <<>>

C6_Witness ==
    /\ pc = "handle_grid"
    /\ \E xy \in Columns(authored) :
          /\ PersistentTimes(authored, xy) # {}
          /\ HasNonBlank(PersistentAt(authored, xy))
          /\ TStar(authored, xy) < duration - 1
          /\ ~Has(authored, <<xy[1], xy[2], duration - 1>>)
          /\ Has(expanded_tiles, <<xy[1], xy[2], duration - 1>>)

\* C7: t* is the greatest time with a non-ephemeral tile whatever the
\* insertion order, P the non-ephemeral part of the stack there; every
\* frame after t* up to duration - 1 becomes P, or P followed by the stack
\* it had; everything else, and every column without a non-ephemeral tile,
\* is as the walk left it.
C7_PaddingRule ==
    pc = "filter" =>
        /\ Columns(expanded_tiles) = Columns(authored)
        /\ \A xy \in Columns(authored) : \A time \in 0..(duration - 1) :
              LET key == <<xy[1], xy[2], time>>
              IN  IF PersistentTimes(authored, xy) # {} /\ time > TStar(authored, xy)
                  THEN /\ Has(expanded_tiles, key)
                       /\ Get(expanded_tiles, key) =
                              PersistentAt(authored, xy) \o StackAt(authored, key)
                  ELSE /\ Has(expanded_tiles, key) <=> Has(authored, key)
                       /\ StackAt(expanded_tiles, key) = StackAt(authored, key)
        /\ \A key \in Keys(expanded_tiles) : key[3] < duration

\* a column whose later frame was inserted before its earlier one, padded
\* over a frame that was already there
C7_Witness ==
    /\ pc = "filter"
    /\ \E i, j \in 1..Len(authored) :
          /\ i < j
          /\ authored[i].key[1] = authored[j].key[1]
          /\ authored[i].key[2] = authored[j].key[2]
          /\ authored[i].key[3] > authored[j].key[3]
          /\ Persistent(authored[j].stack) # <<>>
          /\ Get(expanded_tiles, authored[i].key) =
                 Persistent(authored[j].stack) \o authored[i].stack

\* ------------------------------------------------------------ C8, C9, C10
TransformStep == pc = "changes" /\ last_change' = "transform"
TransformDone == TransformStep /\ pc' = "changes"
RunKeys(n) == {<<x + dx, y + dy, t + i>> : i \in 0..(n - 1)}

\* C8: a Transform of run length n appends the popped (possibly
\* substituted) pending tile, marked ephemeral, once at each of the n keys
\* (x+dx, y+dy, t+i) and nowhere else, leaves exactly one new non-ephemeral
\* pending tile built from its target Unit, advances t by n and clears
\* last_hack.
C8_TransformPlacesRun ==
    [][\A n \in RunLengths, unit \in UnitNodes :
          (Transform(n, unit) /\ pc' = "changes") =>
              LET popped == Last(temp_tile)
                  still == IF IsPrevious(popped) THEN Last(previous_tile)
                           ELSE [popped EXCEPT !.ephemeral = TRUE]
              IN  /\ still.ephemeral
                  /\ \A key \in Keys(expanded_tiles) \cup Keys(expanded_tiles') \cup RunKeys(n) :
                        StackAt(expanded_tiles', key) =
                            IF key \in RunKeys(n)
                            THEN Append(StackAt(expanded_tiles, key), still)
                            ELSE StackAt(expanded_tiles, key)
                  /\ Len(temp_tile') = 1
                  /\ ~temp_tile'[1].ephemeral
                  /\ temp_tile'[1].name =
                         HandleTextMode(unit.object, blob_text_mode, line_text_mode,
                                        is_rule).value
                  /\ temp_tile'[1].variants =
                         (unit.variants \o stack_variants) \o line_variants
                  /\ t' = t + n
                  /\ ~last_hack'
      ]_vars

C8_Witness ==
    /\ pc = "changes"
    /\ last_change = "transform"
    /\ dx = 0 /\ dy = 0 /\ t = 2
    /\ expanded_tiles = <<Entry(<<0, 0, 0>>, <<RawTile(<<"baba">>, <<>>, TRUE)>>),
                          Entry(<<0, 0, 1>>, <<RawTile(<<"baba">>, <<>>, TRUE)>>)>>
    /\ temp_tile = <<RawTile(<<"-">>, <<>>, FALSE)>>

\* the grids differ at `key` only, where `more` was added on top
ExtendedAt(before, after, key, more) ==
    \A k \in Keys(before) \cup Keys(after) \cup {key} :
        /\ Has(after, k) <=> (Has(before, k) \/ k = key)
        /\ StackAt(after, k) =
               IF k = key THEN StackAt(before, k) \o more ELSE StackAt(before, k)

\* C9: at the end of a process the pending tile is appended at
\* (x+dx, y+dy, t) if and only if the last change was not an Operation;
\* after an Operation the grid is left as it is.
C9_EndOfProcessPlacement ==
    [][(pc = "changes" /\ pc' = "between") =>
          IF last_change # "operation"
          THEN ExtendedAt(expanded_tiles, expanded_tiles', <<x + dx, y + dy, t>>, temp_tile)
          ELSE expanded_tiles' = expanded_tiles
      ]_vars

\* a process made of a Unit and one Operation has ended: the grid holds the
\* macro's frame and nothing else
C9_Witness ==
    /\ pc = "between"
    /\ size = 2
    /\ expanded_tiles = <<Entry(<<0, 0, 0>>, <<RawTile(<<"baba">>, <<>>, TRUE)>>)>>

\* C10: a Transform places previous_tile and leaves the slot alone when the
\* popped tile is the previous-sentinel, and otherwise places the popped
\* tile and records it; nothing else writes the slot, which never holds a
\* sentinel.
C10_PreviousTileResolution ==
    /\ [](Len(previous_tile) <= 1 /\ \A i \in 1..Len(previous_tile) :
                                        ~IsPrevious(previous_tile[i]))
    /\ [][/\ TransformDone =>
                LET popped == Last(temp_tile)
                    placed == Last(Get(expanded_tiles', <<x + dx, y + dy, t>>))
                IN  IF IsPrevious(popped)
                    THEN /\ placed = Last(previous_tile)
                         /\ previous_tile' = previous_tile
                    ELSE /\ placed = [popped EXCEPT !.ephemeral = TRUE]
                         /\ previous_tile' = <<placed>>
          /\ ~TransformStep => previous_tile' = previous_tile
         ]_vars

\* the sentinel was resolved to a tile recorded earlier in the request
C10_Witness ==
    /\ pc = "changes"
    /\ last_change = "transform"
    /\ size = MaxSize
    /\ t = 2
    /\ previous_tile = <<RawTile(<<"baba">>, <<>>, TRUE)>>
    /\ Get(expanded_tiles, <<x, y, 1>>) = previous_tile


\* ------------------------------------------------------------------- C11
\* C11: within a row the column counter x starts at 0 and grows by exactly 1
\* per Stack, whatever the number of blobs and processes of the stack and
\* whatever Line the stack lies in: while the k-th stack of the row
\* (0-based, counted across the lines of the row) is walked, x = k.
C11_ColumnIsStackIndex ==
    pc \in {"changes", "between"} => x = stack_no

\* the second stack of a row is walked, and it lies in the row's second line
C11_Witness ==
    /\ pc = "changes"
    /\ line_no = 1
    /\ stack_no = 1
    /\ x = 1

\* ------------------------------------------------------------------- C12
\* C12: the variant list of the pending tile, whether it was built from the
\* initial Unit of a Process or from the target Unit of a Transform, is the
\* Unit's own variants, then the variants of the enclosing blob-stack entry,
\* then the variants of the enclosing block Line, in that order and with
\* duplicates kept.
C12_VariantMerging ==
    pc = "changes" =>
        /\ Len(temp_tile) = 1
        /\ Last(temp_tile).variants = (unit_variants \o stack_variants) \o line_variants
        /\ Len(Last(temp_tile).variants) =
               Len(unit_variants) + Len(stack_variants) + Len(line_variants)

\* a Transform target carrying its own variant, under a stack variant and a
\* line variant equal to its own
C12_Witness ==
    /\ pc = "changes"
    /\ last_change = "transform"
    /\ unit_variants = <<"a">>
    /\ Last(temp_tile).variants = <<"a", "b", "a">>

\* ------------------------------------------------------------------- C13
\* m is the greatest value of component i over the keys of the grid
GreatestAt(grid, i, m) ==
    /\ \E k \in Keys(grid) : k[i] = m
    /\ \A k \in Keys(grid) : k[i] <= m

\* the grid as the walk left it: the live grid until padding, its record then
Walked == IF pc = "pad" THEN expanded_tiles ELSE authored
Measured == pc \in {"pad", "filter", "limits", "handle_grid"}

\* C13: width, height and duration are max(x)+1, max(y)+1 and max(t)+1 over
\* the keys of the grid as it is after the walk and before padding and blank
\* filtering, so positions holding only blank tiles and skipped blank rows
\* count toward the dimensions.
C13_DimensionsOfWalkedGrid ==
    Measured =>
        /\ GreatestAt(Walked, 1, width - 1)
        /\ GreatestAt(Walked, 2, height - 1)
        /\ GreatestAt(Walked, 3, duration - 1)

\* a blank row was skipped and the second column held only a blank tile:
\* both count, though the filtered grid has one key
C13_Witness ==
    /\ pc = "limits"
    /\ width = 2
    /\ height = 2
    /\ Keys(expanded_tiles) = {<<0, 1, 0>>}

\* ------------------------------------------------------------------- C14
\* the tiles of a stack that are not blank, in the order they have in it
RECURSIVE WithoutBlanks(_)
WithoutBlanks(stack) ==
    IF stack = <<>> THEN <<>>
    ELSE IF Head(stack).name = EmptyName THEN WithoutBlanks(Tail(stack))
    ELSE <<Head(stack)>> \o WithoutBlanks(Tail(stack))

\* the grid as padding left it, before the blank filter
BeforeFilter == PadGrid(authored, duration)

\* C14: in the grid handed to the downstream pipeline no stack holds a blank
\* tile, no key maps to an empty stack, and each stack holds the tiles it
\* had before filtering that are not blank, in the order they had.
C14_FilteredGrid ==
    pc \in {"limits", "handle_grid"} =>
        /\ \A i \in 1..Len(expanded_tiles) :
              /\ expanded_tiles[i].stack # <<>>
              /\ \A j \in 1..Len(expanded_tiles[i].stack) :
                    expanded_tiles[i].stack[j].name # EmptyName
        /\ \A key \in Keys(BeforeFilter) \cup Keys(expanded_tiles) :
              /\ StackAt(expanded_tiles, key) = WithoutBlanks(StackAt(BeforeFilter, key))
              /\ Has(expanded_tiles, key) <=>
                     WithoutBlanks(StackAt(BeforeFilter, key)) # <<>>

\* handed on: one stack lost a blank tile and kept another tile, one key
\* was dropped with its emptied stack
C14_Witness ==
    /\ pc = "handle_grid"
    /\ \E key \in Keys(expanded_tiles) :
          Len(StackAt(BeforeFilter, key)) > Len(StackAt(expanded_tiles, key))
    /\ \E key \in Keys(BeforeFilter) : ~Has(expanded_tiles, key)

\* ------------------------------------------------------------------- C18
\* C18: every key (x, y, t) of the grid handed to the downstream pipeline
\* has 0 <= t < duration, 0 <= x < width and 0 <= y < height: the walk never
\* creates a negative time offset and temporal padding never creates a key
\* at or beyond the duration computed before padding.  (The operation
\* macros of this model move a tile right or down only, so the bounds on x
\* and y hold with and without them.)
C18_KeysWithinDimensions ==
    /\ t >= 0
    /\ \A key \in Keys(expanded_tiles) : key[3] >= 0
    /\ pc \in {"filter", "limits", "handle_grid"} =>
          \A key \in Keys(expanded_tiles) :
              /\ key[3] < duration
              /\ 0 <= key[1] /\ key[1] < width
              /\ 0 <= key[2] /\ key[2] < height

\* handed on with a key that padding created in the last frame
C18_Witness ==
    /\ pc = "handle_grid"
    /\ duration = 2
    /\ \E key \in Keys(expanded_tiles) :
          /\ ~Has(authored, key)
          /\ key[3] = duration - 1

\* ------------------------------------------------------------------- C27
\* C27: for every input that passes the blank-input check and the flag
\* validation and whose rows all parse (inputs made of flags only, or of
\* whitespace only once flags and pipes are removed, included), the
\* expanded grid is non-empty when width, height and duration are computed:
\* the dimension computation is always defined and does not end the request
\* with the ValueError of max() on an empty dict.
C27_GridNonEmptyAtDimensions ==
    /\ pc = "dims" => expanded_tiles # <<>>
    /\ raised # ValueError

\* ------------------------------------------------------------------- C28
\* C28: whenever a Transform reads the previous_tile slot (its popped pending
\* tile is the previous-sentinel) the slot is non-empty; the slot holds at
\* most one tile at all times, and it is shared by all rows of the request:
\* no step between rows resets it.
C28_SlotNonEmptyWhenRead ==
    /\ [](Len(previous_tile) <= 1)
    /\ [][/\ TransformStep /\ IsPrevious(Last(temp_tile)) => previous_tile # <<>>
          /\ pc = "rows" => previous_tile' = previous_tile
         ]_vars

\* ------------------------------------------------------------------- C21
\* a step of handle_render_tiles: a call arrives or its render comes back
Arrives == Len(requests') = Len(requests) + 1
Arrived == requests'[Len(requests')]
ComesBack(i) == requests[i].state = "rendering" /\ requests'[i].state # "rendering"

\* C21: handle_render_tiles changes cached_generated_tiles only by adding
\* one entry under the request's input hash, after a successful render of a
\* hash that was not cached; on a cache hit it does not call render_tiles
\* and answers with the existing entry's result_url_hash without changing
\* its generated_at; when render_tiles raises WebappUserError it answers
\* HTTP 400 with the error text and leaves the cache unchanged.
C21_RenderTilesCacheFrame ==
    [][/\ Arrives =>
            /\ cached_generated_tiles' = cached_generated_tiles
            /\ heap' = heap
            /\ IF Has(cached_generated_tiles, Arrived.input_hash)
               THEN /\ Arrived.state = "hit"
                    /\ Arrived.status = 200
                    /\ Arrived.result_url_hash = ResultUrlHash(Arrived.input_hash)
               ELSE Arrived.state = "rendering"
       /\ \A i \in 1..Len(requests) : ComesBack(i) =>
            LET input_hash == requests[i].input_hash
            IN  /\ \/ cached_generated_tiles' = cached_generated_tiles
                   \/ /\ requests'[i].state = "buffer"
                      /\ ~Has(cached_generated_tiles, input_hash)
                      /\ cached_generated_tiles' =
                             Append(cached_generated_tiles, Entry(input_hash, Len(heap')))
                      /\ heap'[Len(heap')].input_hash = input_hash
                /\ requests'[i].state = "WebappUserError" =>
                      /\ requests'[i].status = 400
                      /\ requests'[i].detail = ErrorText
                      /\ cached_generated_tiles' = cached_generated_tiles
                      /\ heap' = heap
                /\ (requests'[i].state = "buffer" /\ ~Has(cached_generated_tiles, input_hash)) =>
                      /\ requests'[i].status = 200
                      /\ Has(cached_generated_tiles', input_hash)
      ]_vars

\* a render was cached at time 0 and a second request for the same hash was
\* answered from the cache: at time 1 there is one entry, generated at 0
C21_Witness ==
    /\ Len(requests) = 2
    /\ requests[1].state = "buffer" /\ requests[1].status = 200
    /\ requests[2].state = "hit" /\ requests[2].status = 200
    /\ requests[2].result_url_hash = requests[1].result_url_hash
    /\ Len(cached_generated_tiles) = 1
    /\ Len(heap) = 1
    /\ now = 1
    /\ heap[1].generated_at = 0

\* ------------------------------------------------------------------- C22
LoggedLast == load_log'[Len(load_log')]
UnforcedLoads(flag) ==
    {k \in 1..Len(load_log) :
        load_log[k].flag = flag /\ load_log[k].did = "loaded" /\ ~load_log[k].forced}

\* C22: across any sequence of load calls, a loader whose flag is already
\* recorded in load_flags is skipped (its body is not run) unless one of
\* force_flags glob-matches its flag; a flag is recorded only after the
\* loader's body completed without raising; so without forcing each body
\* runs successfully at most once; and the loaders run in the order initial
\* tiles, editor tiles, custom tiles, vanilla letters.
C22_LoadFlags ==
    /\ [][Len(load_log') > Len(load_log) =>
            LET loader == loaders[loader_no]
                forced == ForceLoad(loader.flag, force_flags)
            IN  /\ LoggedLast.flag = loader.flag
                /\ (loader.flag \in load_flags /\ ~forced) =>
                       LoggedLast.did = "skipped" /\ load_flags' = load_flags
                /\ (loader.flag \notin load_flags \/ forced) => LoggedLast.did # "skipped"
                /\ load_flags' # load_flags =>
                       /\ load_flags' = load_flags \cup {loader.flag}
                       /\ LoggedLast.did = "loaded"
                /\ LoggedLast.did = "loaded" => loader.flag \in load_flags'
         ]_vars
    /\ [][Len(load_log') = Len(load_log) => load_flags' = load_flags]_vars
    /\ [](\A k \in 1..Len(loaders) : Cardinality(UnforcedLoads(loaders[k].flag)) <= 1)
    /\ [](\A k \in 1..Len(load_log) :
            /\ load_log[k].flag = loaders[load_log[k].no].flag
            /\ IF k > 1 /\ load_log[k - 1].call = load_log[k].call
               THEN load_log[k].no = load_log[k - 1].no + 1
               ELSE load_log[k].no = 1)
    /\ [](<<loaders[1].description, loaders[2].description, loaders[3].description,
            loaders[4].description>>
              = <<"initial tiles", "initial editor", "initial custom", "vanilla letters">>)

\* a first load ran all four bodies; a second load forcing tiles.* ran the
\* three tile loaders again and skipped the letters
C22_Witness ==
    /\ Len(load_log) = 8
    /\ \A k \in 1..4 : load_log[k].did = "loaded" /\ ~load_log[k].forced
    /\ \A k \in 5..7 : load_log[k].did = "loaded" /\ load_log[k].forced
    /\ load_log[8].did = "skipped"
    /\ load_log[8].flag = <<"letters", ".", "vanilla">>
    /\ pc = "idle"

\* ------------------------------------------------------------------- C23
\* C23: two handle_render_tiles requests with the same input hash that
\* overlap (both pass the cache-miss check before either render has come
\* back) both complete with a successful response: constructing
\* GeneratedTiles never raises the collision exception, and the cache ends
\* with exactly one entry for that hash.
C23_OverlappingRequestsSucceed ==
    /\ \A i \in 1..Len(requests) :
          requests[i].state = "buffer" => requests[i].status = 200
    /\ \A i \in 1..Len(requests) : requests[i].status # 500
    /\ Cardinality(Keys(cached_generated_tiles)) = Len(cached_generated_tiles)

\* ------------------------------------------------------------------- C25
\* C25: handle_send_result never serves an entry whose expires_at has
\* already passed: for every response with a result body the cache-control
\* max-age (floor of expires_at minus now) is >= 0; an unknown hash always
\* yields HTTP 404.
C25_NeverServesExpired ==
    /\ [](sent.status = 200 => sent.max_age >= 0)
    /\ [][\A u \in SendableHashes :
             (SendResult(u) /\ ~Has(cached_generated_tiles, ResultUrlHashToInputHash(u)))
                 => sent'.status = 404
         ]_vars

\* ------------------------------------------------------------------- C24
Expired(self) == self \in Cached(cached_generated_tiles) /\ now > ExpiresAt(self)

\* C24: while the application is running, every entry of
\* cached_generated_tiles is eventually removed once its expires_at has
\* passed, by the next round of dispose_expired_generated_tiles_loop (the
\* loop task being scheduled again and again); and a round of the loop never
\* raises: the `is not this instance` exception of try_dispose is
\* unreachable from the loop.
C24_ExpiredEntriesAreRemoved ==
    /\ \A self \in 1..MaxRendered :
          Expired(self) ~> (self \notin Cached(cached_generated_tiles))
    /\ [][DisposeRound =>
            /\ \A self \in Cached(cached_generated_tiles) :
                  now > ExpiresAt(self) => self \notin Cached(cached_generated_tiles')
            /\ \A k \in 1..Len(dispose_log') : dispose_log'[k].returned # "raised"
         ]_vars
    /\ [](pc # "loop_ended")

\* two renders were cached, both expired, and one round of the loop removed
\* both while the application was running
C24_Witness ==
    /\ pc = "serving"
    /\ Len(heap) = 2
    /\ Len(dispose_log) = 2
    /\ \A k \in 1..2 : dispose_log[k].returned = "True"
    /\ cached_generated_tiles = <<>>
    /\ \A self \in 1..2 : heap[self].tmp = "closed"

\* ------------------------------------------------------------------- C26
\* C26: get_database never returns a Database whose connect(db_path) has not
\* yet completed, also when several coroutines call it at once during the
\* first initialisation; every call returns the same single instance.
C26_DatabaseConnectedWhenReturned ==
    \A c \in 1..Len(callers) :
        (callers[c].state = "returned" /\ callers[c].database # 0) =>
            /\ callers[c].connected
            /\ callers[c].database = 1

=============================================================================
